---------------------------- MODULE Spec2Model ----------------------------
(***************************************************************************)
(* A model of the nanobot control core: the oscillation detector           *)
(* (agent/safety.py), the message bus (bus/queue.py), the orchestration    *)
(* loop (agent/loop.py) and the background task manager                    *)
(* (agent/subagent.py).                                                    *)
(*                                                                         *)
(* Python values are tagged records [t, v]:                                *)
(*   Str(chars)  a str given character by character                       *)
(*   Cmd(tokens) a str given as its shell tokens; a token is the sequence  *)
(*               of its whitespace-separated words (more than one word     *)
(*               means the token was quoted in the command line)           *)
(*   Bool(b), Int(n), NoneVal                                              *)
(* A mapping (tool arguments) is a TLA+ record; a missing key is a missing *)
(* field.                                                                  *)
(***************************************************************************)
EXTENDS Naturals, Sequences, FiniteSets

VARIABLES
    threshold,      \* OscillationDetector.threshold
    window_size,    \* maxlen of OscillationDetector.history
    det,            \* the detector: [history, just_wrote]
    det_log         \* the check() calls made so far, with what each returned

det_vars == <<threshold, window_size, det, det_log>>

VARIABLES
    inbound,        \* MessageBus.inbound: the items on the queue, oldest first
    outbound,       \* MessageBus.outbound
    in_shutdown,    \* MessageBus._inbound_shutdown_requested
    out_shutdown,   \* MessageBus._outbound_shutdown_requested
    in_put,         \* every item ever put on inbound, in order
    out_put,        \* every item ever put on outbound, in order
    in_late,        \* messages handed to publish_inbound after stop()
    out_late,       \* messages handed to publish_outbound after stop()
    in_got,         \* what consume_inbound returned, call by call
    out_got,        \* what consume_outbound returned, call by call
    stop_calls      \* number of MessageBus.stop() calls so far

bus_vars == <<inbound, outbound, in_shutdown, out_shutdown, in_put, out_put,
              in_late, out_late, in_got, out_got, stop_calls>>

VARIABLES
    subscribers,    \* MessageBus._outbound_subscribers: channel -> callbacks
    dead_letters,   \* MessageBus._dead_letters
    last_notify     \* the last notify_subscribers call: what it did

sub_vars == <<subscribers, dead_letters, last_notify>>

VARIABLES
    running,        \* AgentLoop._running
    run_pc,         \* where run() is: "off", "top", "consume", "turn", "exited"
    pc,             \* where the turn in progress is ("idle": no turn)
    turn,           \* the locals of the turn in progress
    osc,            \* AgentLoop.oscillation_detectors, least recently used first
    force_attempts, \* AgentLoop._force_attempts: session_key -> count
    sessions,       \* the session store: session_key -> saved history
    catalog,        \* the tool calls the model's responses are made of
    turns,          \* number of turns started so far
    last_tool,      \* the tool call dispatched by the step just taken, if any
    last_done,      \* the turn ended by the step just taken, if any
    last_route      \* the routing decision made by the step just taken, if any

loop_vars == <<running, run_pc, pc, turn, osc, force_attempts, sessions, catalog,
               turns, last_tool, last_done, last_route>>

VARIABLES
    subagents,      \* the runs SubagentManager.spawn started, oldest first
    last_sub_tool   \* the tool call a run just made: its name and status

spawn_vars == <<subagents, last_sub_tool>>

VARIABLES
    cap,            \* AgentLoop.MAX_OSCILLATION_DETECTORS as the loop reads it
    used            \* the session keys of the user turns begun so far, in order

cache_vars == <<cap, used>>

VARIABLES
    registered,     \* the keys of a ToolRegistry._tools
    executes,       \* the number of execute() calls made on it
    last_exec       \* the execute() call the step just taken made, if any

reg_vars == <<registered, executes, last_exec>>

VARIABLES
    tasks,          \* the coroutines that call _process_message: where each is
    tool_context    \* the (channel, chat_id) the message/spawn/cron tools hold

conc_vars == <<tasks, tool_context>>

VARIABLES
    plan,           \* the plan dict of a turn: [analysis, strategy]
    system_content, \* messages[0]["content"], as its blocks of text
    previous,       \* the suffix the last update_plan call replaced
    plan_updates,   \* the update_plan calls of the turn so far
    sent,           \* the system content the model call just made was given
    plan_args       \* the arguments of the last update_plan call

plan_vars == <<plan, system_content, previous, plan_updates, sent, plan_args>>

VARIABLES
    spawned_origin, \* the origin spawn() was given: [channel, chat_id]
    announce,       \* the system message _announce_result published for it
    routed          \* the outbound message the system turn returned for it

origin_vars == <<spawned_origin, announce, routed>>

VARIABLES
    shell           \* one ExecTool.execute call: where it is, its subprocess,
                    \* the signals it sent and what it returned

exec_vars == <<shell>>

VARIABLES
    validated       \* one Tool.validate_params call: the tool, the arguments
                    \* and the errors returned

valid_vars == <<validated>>

VARIABLES
    sigs            \* a detector given its workspace root, and the exec calls
                    \* checked with it: their signatures and results

sig_vars == <<sigs>>

VARIABLES
    manager         \* ChannelManager's dispatcher task: whether it still
                    \* loops, and what it did with each message it consumed

manager_vars == <<manager>>

VARIABLES
    transcript      \* one turn of either loop variant: where it is, its
                    \* detector and force counter, and its `messages` list

transcript_vars == <<transcript>>

\* the variables of the oldest specifications, and those of the later ones
core_vars == <<det_vars, bus_vars, sub_vars, loop_vars, spawn_vars, cache_vars,
               reg_vars, conc_vars>>
late_vars == <<plan_vars, origin_vars, exec_vars, valid_vars, sig_vars, manager_vars,
    transcript_vars>>
late_but_plan == <<origin_vars, exec_vars, valid_vars, sig_vars, manager_vars,
    transcript_vars>>
late_but_origin == <<plan_vars, exec_vars, valid_vars, sig_vars, manager_vars,
    transcript_vars>>
late_but_exec == <<plan_vars, origin_vars, valid_vars, sig_vars, manager_vars,
    transcript_vars>>
late_but_valid == <<plan_vars, origin_vars, exec_vars, sig_vars, manager_vars,
    transcript_vars>>
late_but_sig == <<plan_vars, origin_vars, exec_vars, valid_vars, manager_vars,
    transcript_vars>>
late_but_manager == <<plan_vars, origin_vars, exec_vars, valid_vars, sig_vars,
    transcript_vars>>
late_but_transcript == <<plan_vars, origin_vars, exec_vars, valid_vars, sig_vars,
    manager_vars>>

vars == <<core_vars, late_vars>>

-----------------------------------------------------------------------------
(* Bounds of the model *)

MaxThreshold == 3
MaxWindow == 4
MaxChecks == 5
MaxPublish == 3
MaxStops == 2
MaxSubscribers == 2
MaxDeadLetters == 3
max_iterations == 2
MaxToolCalls == 2
MaxInbound == 1
MaxSubagents == 1
MaxCap == 2
MaxCacheTurns == 4
MaxExecutes == 2
MaxPlanUpdates == 2
MaxOriginLen == 2

-----------------------------------------------------------------------------
(* Python values *)

Str(chars) == [t |-> "str", v |-> chars]
Cmd(tokens) == [t |-> "cmd", v |-> tokens]
Bool(b) == [t |-> "bool", v |-> <<IF b THEN "true" ELSE "false">>]
Int(n) == [t |-> "int", v |-> <<n>>]
NoneVal == [t |-> "none", v |-> <<>>]

\* isinstance(x, str)
IsStr(x) == x.t \in {"str", "cmd"}

\* c repeated n times
Rep(c, n) == [i \in 1..n |-> c]

\* args.get(key, default)
Get(args, key, default) == IF key \in DOMAIN args THEN args[key] ELSE default

\* one unquoted token
W(word) == <<word>>

\* a tool call request
Call(name, args) == [name |-> name, args |-> args]

-----------------------------------------------------------------------------
(* agent/safety.py: OscillationDetector *)

NoneResult == "None"
Refusal == "STATUS: OSCILLATION DETECTED"
TypeErrorRaised == "TypeError"

write_tools == {"write_file", "edit_file", "mkdir", "update_plan"}

\* the write commands, split into lowercase tokens
write_cmd_patterns ==
    { <<W("touch")>>, <<W("mv")>>, <<W("cp")>>, <<W("rm")>>, <<W("mkdir")>>,
      <<W("git")>>, <<W("npm"), W("i")>>, <<W("pip"), W("install")>> }

\* {cmd.split()[0] for cmd in self.write_cmds}
write_cmd_first == { p[1][1] : p \in write_cmd_patterns }

\* str.lower() on the words of the vocabulary
Lower(w) ==
    CASE w = "RM" -> "rm"
      [] w = "Sudo" -> "sudo"
      [] w = "GIT" -> "git"
      [] OTHER -> w

\* "=" in word
HasEq(w) == w \in {"A=1", "B=2", "--opt=1"}

\* word.startswith("-")
StartsDash(w) == w \in {"-c", "-lc", "-m", "-rf", "-u", "-i", "--opt=1"}

\* word.startswith("python")
StartsPython(w) == w \in {"python", "python3", "pythonw"}

\* f"{base}/" in word, for a base of write_cmd_first (after \ became /)
HasBaseSlash(w) == w \in {"git/x", "rm/x", "a\\git\\x", "/bin/rm/x"}

TokLower(tok) == [i \in DOMAIN tok |-> Lower(tok[i])]
TokHasEq(tok) == \E i \in DOMAIN tok : HasEq(tok[i])
TokStartsDash(tok) == Len(tok) > 0 /\ StartsDash(tok[1])
LowerAll(tokens) == [i \in DOMAIN tokens |-> TokLower(tokens[i])]

\* tokens[k:] with Python's 0-based k written as the 1-based first index
From(tokens, first) == SubSeq(tokens, first, Len(tokens))

RECURSIVE JoinWords(_)
\* " ".join(words)
JoinWords(words) ==
    IF Len(words) = 1 THEN words[1]
    ELSE words[1] \o " " \o JoinWords(Tail(words))

\* a token of several words as it stands inside an outer quoted token: one
\* word in quotes of its own
QuoteWord(tok) == "'" \o JoinWords(tok) \o "'"

\* a mutating verb with its argument, one token per word
MutatingCommands == { p \o <<W("x")>> : p \in write_cmd_patterns }

\* the words of a command, for use as one quoted token
Quote(c) == [i \in DOMAIN c |-> IF Len(c[i]) = 1 THEN c[i][1] ELSE QuoteWord(c[i])]

\* the quoted words of the vocabulary, each with the token shlex reads it as
QuotedWords == { [word |-> QuoteWord(Quote(c)), token |-> Quote(c)] : c \in MutatingCommands }

\* shlex.split on one word: a quoted word is one token of its inner words
Unquote(w) ==
    IF \E q \in QuotedWords : q.word = w
    THEN (CHOOSE q \in QuotedWords : q.word = w).token
    ELSE W(w)

RECURSIVE Flatten(_)
\* shlex.split(" ".join(tokens)): every word becomes a token of its own, a
\* quoted word one token of the words inside its quotes
Flatten(tokens) ==
    IF tokens = <<>> THEN <<>>
    ELSE [i \in DOMAIN tokens[1] |-> Unquote(tokens[1][i])] \o Flatten(Tail(tokens))

RECURSIVE SkipEnvArgs(_, _)
\* the inner while of the `env` branch: skip options and assignments
SkipEnvArgs(tokens, idx) ==
    IF idx <= Len(tokens) /\ (TokStartsDash(tokens[idx]) \/ TokHasEq(tokens[idx]))
    THEN SkipEnvArgs(tokens, idx + 1)
    ELSE idx

\* the tail of _extract_command_tokens, after the while loop
ExtractTail(tokens, idx) ==
    LET filtered == From(tokens, idx)
    IN  IF Len(filtered) = 1 /\ Len(filtered[1]) > 1
        THEN LowerAll(Flatten(filtered))
        ELSE LowerAll(filtered)

RECURSIVE ExtractFrom(_, _)
\* the while loop of _extract_command_tokens, from position idx
ExtractFrom(tokens, idx) ==
    IF idx > Len(tokens) THEN ExtractTail(tokens, idx)
    ELSE
    LET token == tokens[idx]
        lower == TokLower(token)
    IN  IF TokHasEq(token) /\ ~TokStartsDash(token)
            THEN ExtractFrom(tokens, idx + 1)
        ELSE IF lower \in {W("sudo"), W("doas"), W("command")}
            THEN ExtractFrom(tokens, idx + 1)
        ELSE IF lower = W("env")
            THEN ExtractFrom(tokens, SkipEnvArgs(tokens, idx + 1))
        ELSE IF StartsPython(lower[1]) \/ lower \in {W("pythonw"), W("pypy")}
            THEN IF idx + 1 <= Len(tokens) /\ tokens[idx + 1] = W("-m")
                    THEN IF idx + 2 <= Len(tokens)
                         THEN LowerAll(From(tokens, idx + 2))
                         ELSE <<>>
                 ELSE IF idx + 1 <= Len(tokens) /\ tokens[idx + 1] \in {W("-c"), W("-lc")}
                    THEN IF idx + 2 <= Len(tokens)
                         THEN LowerAll(Flatten(From(tokens, idx + 2)))
                         ELSE <<>>
                 ELSE LowerAll(From(tokens, idx))
        ELSE IF lower \in {W("sh"), W("bash"), W("zsh"), W("ksh")}
            THEN IF idx + 1 <= Len(tokens) /\ TokLower(tokens[idx + 1]) \in {W("-c"), W("-lc")}
                    THEN IF idx + 2 <= Len(tokens)
                         THEN LowerAll(Flatten(From(tokens, idx + 2)))
                         ELSE <<>>
                 ELSE LowerAll(From(tokens, idx))
        ELSE ExtractTail(tokens, idx)

_extract_command_tokens(tokens) == ExtractFrom(tokens, 1)

\* normalized_tokens[:len(pattern)] == pattern for some write pattern
MatchesWritePattern(ntokens) ==
    \E p \in write_cmd_patterns :
        Len(ntokens) >= Len(p) /\ SubSeq(ntokens, 1, Len(p)) = p

\* f"{base}/" in lowered_command or f" {base} " in lowered_command: a word
\* has a blank on both sides when it is inside a quoted token, or is an
\* unquoted token that is neither the first nor the last of the command, or
\* is inside a quoted word and neither its first nor its last
HasWriteSubstring(tokens) ==
    \E j \in DOMAIN tokens : \E k \in DOMAIN tokens[j] :
        LET w == Lower(tokens[j][k])
            n == Len(tokens[j])
            blankLeft == IF n = 1 THEN j > 1 ELSE k > 1
            blankRight == IF n = 1 THEN j < Len(tokens) ELSE k < n
            inner == Unquote(tokens[j][k])
        IN  \/ HasBaseSlash(w)
            \/ w \in write_cmd_first /\ blankLeft /\ blankRight
            \/ \E m \in 2..(Len(inner) - 1) : Lower(inner[m]) \in write_cmd_first

\* step 1 of check(): is the action state-changing
IsWrite(tool_name, args) ==
    \/ tool_name \in write_tools
    \/ tool_name \in write_cmd_first
    \/ /\ tool_name = "exec"
       /\ "command" \in DOMAIN args
       /\ IsStr(args.command)
       /\ LET tokens == IF args.command.t = "cmd" THEN args.command.v
                        ELSE <<args.command.v>>
          IN  \/ MatchesWritePattern(_extract_command_tokens(tokens))
              \/ HasWriteSubstring(tokens)

\* the path rewriting of normalize_args on one word, workspace root /w
NormWord(w) ==
    CASE w = "./f.txt" -> "/w/f.txt"
      [] w = "../w/f.txt" -> "/w/f.txt"
      [] w = "C:\\w\\f.txt" -> "/w/f.txt"
      [] w = "/w//f.txt" -> "/w/f.txt"
      [] OTHER -> w

NormCommand(cmd) ==
    [t |-> cmd.t,
     v |-> IF cmd.t = "cmd"
           THEN [j \in DOMAIN cmd.v |-> [k \in DOMAIN cmd.v[j] |-> NormWord(cmd.v[j][k])]]
           ELSE [k \in DOMAIN cmd.v |-> NormWord(cmd.v[k])]]

\* re.sub on a value that is no str raises TypeError
NormalizeRaises(tool_name, args) ==
    tool_name = "exec" /\ "command" \in DOMAIN args /\ ~IsStr(args.command)

\* json.dumps(normalized, sort_keys=True): equal exactly for equal mappings
normalize_args(tool_name, args) ==
    IF tool_name = "exec" /\ "command" \in DOMAIN args
    THEN [args EXCEPT !.command = NormCommand(args.command)]
    ELSE args

Signature(tool_name, args) == <<tool_name, normalize_args(tool_name, args)>>

\* deque(maxlen=window).append
Mut_Append_maxlen(history, sig, window) == Append(history, sig)
Append_maxlen(history, sig, window) ==
    IF window = 0 THEN <<>>
    ELSE IF Len(history) >= window
         THEN Append(Tail(history), sig)
         ELSE Append(history, sig)

\* the post-write grace period still suppresses detection
Mut_StillInGrace(history, T) == Len(history) < T
StillInGrace(history, T) == Len(history) <= T

\* the last T entries all equal sig
Mut_RecentAllEqual(history, sig, T) ==
    Len(history) >= T + 1
    /\ \A i \in (Len(history) - T)..Len(history) : history[i] = sig
RecentAllEqual(history, sig, T) ==
    Len(history) >= T
    /\ \A i \in (Len(history) - T + 1)..Len(history) : history[i] = sig

\* self.history.clear() on a state-changing action
Mut_AfterWrite(history) == history
AfterWrite(history) == <<>>

\* the read-only part of check, from the signature on
CheckSignature(d, T, window, sig) ==
    LET h == Append_maxlen(d.history, sig, window)
    IN  IF d.just_wrote /\ StillInGrace(h, T)
        THEN [det |-> [history |-> h, just_wrote |-> TRUE], result |-> NoneResult]
        ELSE [det |-> [history |-> h, just_wrote |-> FALSE],
              result |-> IF RecentAllEqual(h, sig, T) THEN Refusal ELSE NoneResult]

\* OscillationDetector.check: the detector afterwards and what is returned
Check(d, T, window, tool_name, args) ==
    IF IsWrite(tool_name, args)
    THEN [det |-> [history |-> AfterWrite(d.history), just_wrote |-> TRUE],
          result |-> NoneResult]
    ELSE IF NormalizeRaises(tool_name, args)
    THEN [det |-> d, result |-> TypeErrorRaised]
    ELSE CheckSignature(d, T, window, Signature(tool_name, args))

\* a (tool, args) pair the detector neither classifies as a write nor fails on
IsReadOnly(tool_name, args) ==
    ~IsWrite(tool_name, args) /\ ~NormalizeRaises(tool_name, args)

-----------------------------------------------------------------------------
(* bus/queue.py: MessageBus *)

InboundShutdown == [kind |-> "_InboundShutdown"]
OutboundShutdown == [kind |-> "_OutboundShutdown"]
EndOfStream == [kind |-> "None"]

Channels == {"cli", "discord"}

IsMsg(item) == item.kind = "msg"

\* publish_inbound / publish_outbound: dropped once shutdown was requested
Mut_Publish(queue, shutdown_requested, msg) == Append(queue, msg)
Publish(queue, shutdown_requested, msg) ==
    IF shutdown_requested THEN queue ELSE Append(queue, msg)

\* consume_inbound / consume_outbound: the value returned for the item got
Mut_ConsumeResult(item) == item
ConsumeResult(item) ==
    IF item.kind \in {"_InboundShutdown", "_OutboundShutdown"}
    THEN EndOfStream
    ELSE item

\* queue.get(): the item handed to the consumer, oldest first
Mut_QueueGet(queue) == queue[Len(queue)]
QueueGet(queue) == Head(queue)

Mut_QueueRest(queue) == queue
QueueRest(queue) == Tail(queue)

\* one half of stop(): the sentinel is enqueued only by the call that flips the flag
Mut_StopQueue(queue, shutdown_requested, sentinel) == Append(queue, sentinel)
Mut_StopQueueSilent(queue, shutdown_requested, sentinel) == queue
StopQueue(queue, shutdown_requested, sentinel) ==
    IF ~shutdown_requested THEN Append(queue, sentinel) ELSE queue

\* the detector as AgentLoop constructs it (defaults of __init__)
DetIdle ==
    /\ threshold = 3
    /\ window_size = 6
    /\ det = [history |-> <<>>, just_wrote |-> FALSE]
    /\ det_log = <<>>

SubInit ==
    /\ subscribers = [c \in Channels |-> <<>>]
    /\ dead_letters = <<>>
    /\ last_notify = [msg |-> EndOfStream, subscribed |-> 0, invoked |-> 0,
                      raised |-> 0, added |-> 0]

\* no turn in progress
IdleTurn == [entry |-> "none"]
NoTool == [name |-> "none"]
NoDone == [outcome |-> "none"]
NoRoute == [error |-> "unrouted"]
NoExec == [outcome |-> "none"]
NoSubTool == [name |-> "none", status |-> "none"]

\* active_plan = None
NoSuffix == <<"None">>

\* the system prompt without a suffix
BasePrompt == <<"prompt">>

\* no update_plan call yet
NoArgs == [none |-> NoneVal]

\* plan = {} and active_plan = None, before any transcript is built
NoPlanYet ==
    /\ plan = [analysis |-> NoneVal, strategy |-> <<>>]
    /\ system_content = <<>>
    /\ previous = NoSuffix
    /\ plan_updates = 0
    /\ sent = <<>>
    /\ plan_args = NoArgs

\* no subagent spawned yet
NoOrigin == [channel |-> <<>>, chat_id |-> <<>>, set |-> FALSE]
NoOriginYet ==
    /\ spawned_origin = NoOrigin
    /\ announce = NoOrigin
    /\ routed = NoOrigin

\* no execute call has been made
NoShell ==
    [pc |-> "idle", timeout |-> 0, proc |-> "none", waited |-> 0,
     signals |-> <<>>, result |-> [kind |-> "none", seconds |-> 0]]

\* validate_params has not been called
NotValidated == [tool |-> "none"]

\* no detector with a workspace root yet
NoSigs ==
    [root |-> <<>>, det |-> [history |-> <<>>, just_wrote |-> FALSE], log |-> <<>>]

\* the dispatcher task is started and has consumed nothing
NoManager == [looping |-> TRUE, handled |-> <<>>]

\* no turn's transcript is followed yet
NoTranscript ==
    [pc |-> "idle", kind |-> "none", iteration |-> 0, ids |-> <<>>, next |-> 0,
     messages |-> <<>>, det |-> [history |-> <<>>, just_wrote |-> FALSE],
     attempts |-> 0, path |-> "none"]

\* the later specifications' variables other than the plan's and the origin's
NoOthersYet ==
    /\ shell = NoShell
    /\ validated = NotValidated
    /\ sigs = NoSigs
    /\ manager = NoManager
    /\ transcript = NoTranscript

\* the coroutines that run turns: run(), and a caller of process_direct
Tasks == {"run", "direct"}
IdleTask == [pc |-> "idle"]
NoContext == [channel |-> "none", chat_id |-> "none"]

Sessions == { <<"cli", ":", "1">>, <<"cli", ":", "2">> }

\* AgentLoop.__init__, with the model drawing its tool calls from calls
\* class attribute AgentLoop.MAX_OSCILLATION_DETECTORS
MAX_OSCILLATION_DETECTORS == 100

LoopInitAt(calls, limit) ==
    /\ running = FALSE
    /\ run_pc = "off"
    /\ pc = "idle"
    /\ turn = IdleTurn
    /\ osc = <<>>
    /\ force_attempts = [k \in {} |-> 0]
    /\ sessions = [k \in {} |-> <<>>]
    /\ catalog = calls
    /\ turns = 0
    /\ last_tool = NoTool
    /\ last_done = NoDone
    /\ last_route = NoRoute
    /\ subagents = <<>>
    /\ last_sub_tool = NoSubTool
    /\ cap = limit
    /\ used = <<>>
    /\ registered = {}
    /\ executes = 0
    /\ last_exec = NoExec
    /\ tasks = [t \in Tasks |-> IdleTask]
    /\ tool_context = NoContext
    /\ NoPlanYet
    /\ NoOriginYet
    /\ NoOthersYet

LoopInitWith(calls) == LoopInitAt(calls, MAX_OSCILLATION_DETECTORS)

LoopIdle == LoopInitWith({})

BusInit ==
    /\ inbound = <<>>
    /\ outbound = <<>>
    /\ in_shutdown = FALSE
    /\ out_shutdown = FALSE
    /\ in_put = <<>>
    /\ out_put = <<>>
    /\ in_late = <<>>
    /\ out_late = <<>>
    /\ in_got = <<>>
    /\ out_got = <<>>
    /\ stop_calls = 0

\* the items of a sequence that are messages
Msgs(seq) == SelectSeq(seq, IsMsg)

\* publish_inbound(msg)
publish_inbound(msg) ==
    /\ inbound' = Publish(inbound, in_shutdown, msg)
    /\ in_put' = Publish(in_put, in_shutdown, msg)
    /\ in_late' = IF in_shutdown THEN Append(in_late, msg) ELSE in_late

\* publish_outbound(msg)
publish_outbound(msg) ==
    /\ outbound' = Publish(outbound, out_shutdown, msg)
    /\ out_put' = Publish(out_put, out_shutdown, msg)
    /\ out_late' = IF out_shutdown THEN Append(out_late, msg) ELSE out_late

\* consume_inbound(): blocks while the queue is empty
consume_inbound ==
    /\ inbound # <<>>
    /\ in_got' = Append(in_got, ConsumeResult(QueueGet(inbound)))
    /\ inbound' = QueueRest(inbound)

\* consume_outbound()
consume_outbound ==
    /\ outbound # <<>>
    /\ out_got' = Append(out_got, ConsumeResult(QueueGet(outbound)))
    /\ outbound' = QueueRest(outbound)

\* stop()
bus_stop ==
    /\ inbound' = StopQueue(inbound, in_shutdown, InboundShutdown)
    /\ in_put' = StopQueue(in_put, in_shutdown, InboundShutdown)
    /\ in_shutdown' = TRUE
    /\ outbound' = StopQueue(outbound, out_shutdown, OutboundShutdown)
    /\ out_put' = StopQueue(out_put, out_shutdown, OutboundShutdown)
    /\ out_shutdown' = TRUE
    /\ stop_calls' = stop_calls + 1

(* The bus on its own: producers, one consumer per queue, callers of stop() *)

BusPublishInbound ==
    /\ Len(Msgs(in_put)) + Len(in_late) < MaxPublish
    /\ publish_inbound([kind |-> "msg",
                        id |-> Len(Msgs(in_put)) + Len(in_late) + 1])
    /\ UNCHANGED <<outbound, in_shutdown, out_shutdown, out_put, out_late,
                   in_got, out_got, stop_calls>>
    /\ UNCHANGED <<spawn_vars, cache_vars, reg_vars, conc_vars, late_vars, det_vars, sub_vars, loop_vars>>

BusPublishOutbound ==
    /\ Len(Msgs(out_put)) + Len(out_late) < MaxPublish
    /\ publish_outbound([kind |-> "msg",
                         id |-> Len(Msgs(out_put)) + Len(out_late) + 1])
    /\ UNCHANGED <<inbound, in_shutdown, out_shutdown, in_put, in_late,
                   in_got, out_got, stop_calls>>
    /\ UNCHANGED <<spawn_vars, cache_vars, reg_vars, conc_vars, late_vars, det_vars, sub_vars, loop_vars>>

BusConsumeInbound ==
    /\ consume_inbound
    /\ UNCHANGED <<outbound, in_shutdown, out_shutdown, in_put, out_put,
                   in_late, out_late, out_got, stop_calls>>
    /\ UNCHANGED <<spawn_vars, cache_vars, reg_vars, conc_vars, late_vars, det_vars, sub_vars, loop_vars>>

BusConsumeOutbound ==
    /\ consume_outbound
    /\ UNCHANGED <<inbound, in_shutdown, out_shutdown, in_put, out_put,
                   in_late, out_late, in_got, stop_calls>>
    /\ UNCHANGED <<spawn_vars, cache_vars, reg_vars, conc_vars, late_vars, det_vars, sub_vars, loop_vars>>

BusStop ==
    /\ stop_calls < MaxStops
    /\ bus_stop
    /\ UNCHANGED <<in_late, out_late, in_got, out_got>>
    /\ UNCHANGED <<spawn_vars, cache_vars, reg_vars, conc_vars, late_vars, det_vars, sub_vars, loop_vars>>

BusNext ==
    \/ BusPublishInbound
    \/ BusPublishOutbound
    \/ BusConsumeInbound
    \/ BusConsumeOutbound
    \/ BusStop

BusAloneInit ==
    /\ BusInit
    /\ DetIdle
    /\ SubInit
    /\ LoopIdle

SpecBus == BusAloneInit /\ [][BusNext]_vars

\* each queue has a single consumer that keeps consuming
FairSpecBus ==
    /\ SpecBus
    /\ WF_vars(BusConsumeInbound)
    /\ WF_vars(BusConsumeOutbound)

\* the value a consumer is handed for each item put on a queue
Returned(put) == [i \in DOMAIN put |-> ConsumeResult(put[i])]

IsPrefix(s, t) == Len(s) <= Len(t) /\ SubSeq(t, 1, Len(s)) = s

\* C6: after stop() publish_inbound and publish_outbound enqueue nothing: no
\* message sits behind the shutdown sentinel in either queue, and no message
\* handed to publish after stop() is on a queue or was returned by consume.
C6_DroppedAfterStop ==
    /\ \A i \in DOMAIN inbound : ~IsMsg(inbound[i]) => i = Len(inbound)
    /\ \A i \in DOMAIN outbound : ~IsMsg(outbound[i]) => i = Len(outbound)
    /\ \A k \in DOMAIN in_late :
        /\ \A i \in DOMAIN inbound : inbound[i] # in_late[k]
        /\ \A i \in DOMAIN in_got : in_got[i] # in_late[k]
    /\ \A k \in DOMAIN out_late :
        /\ \A i \in DOMAIN outbound : outbound[i] # out_late[k]
        /\ \A i \in DOMAIN out_got : out_got[i] # out_late[k]

C6_Witness ==
    /\ in_late # <<>>
    /\ out_late # <<>>
    /\ Len(in_got) > 0 /\ in_got[Len(in_got)] = EndOfStream
    /\ Len(out_got) > 0 /\ out_got[Len(out_got)] = EndOfStream

\* what a single consumer has been handed so far is the start of: the messages
\* published before stop(), in publish order, then end-of-stream once
FifoThenEnd(got, queue, put, late) ==
    /\ got \o Returned(queue) = Returned(put)
    /\ \A i \in DOMAIN put : ~IsMsg(put[i]) => i = Len(put)
    /\ \A i \in DOMAIN put : \A j \in DOMAIN put :
        (i < j /\ IsMsg(put[i]) /\ IsMsg(put[j])) => put[i].id < put[j].id
    /\ \A i \in DOMAIN got : got[i] = EndOfStream => i = Len(got)
    /\ \A k \in DOMAIN late : \A i \in DOMAIN put : put[i] # late[k]

\* C7: each queue hands its single consumer the messages published before
\* stop() in publish order, then end-of-stream exactly once; once stop() has
\* been called, a consumer that keeps consuming reaches end-of-stream.
C7_OrderedThenEndOfStream ==
    /\ [](FifoThenEnd(in_got, inbound, in_put, in_late))
    /\ [](FifoThenEnd(out_got, outbound, out_put, out_late))
    /\ (in_shutdown ~> (Len(in_got) > 0 /\ in_got[Len(in_got)] = EndOfStream))
    /\ (out_shutdown ~> (Len(out_got) > 0 /\ out_got[Len(out_got)] = EndOfStream))

C7_Witness ==
    /\ Len(in_got) = 3
    /\ IsMsg(in_got[1]) /\ IsMsg(in_got[2])
    /\ in_got[3] = EndOfStream
    /\ Len(out_got) = 3
    /\ out_got[3] = EndOfStream

Sentinels(put) == Cardinality({i \in DOMAIN put : ~IsMsg(put[i])})

\* C8: stop() is idempotent: however often it is called each queue receives
\* exactly one shutdown sentinel, and a stop() after the first leaves both
\* queues and both shutdown flags unchanged.
C8_StopIdempotent ==
    /\ [](Sentinels(in_put) = (IF stop_calls > 0 THEN 1 ELSE 0))
    /\ [](Sentinels(out_put) = (IF stop_calls > 0 THEN 1 ELSE 0))
    /\ []((stop_calls > 0) <=> in_shutdown)
    /\ []((stop_calls > 0) <=> out_shutdown)
    /\ [][(stop_calls > 0 /\ stop_calls' > stop_calls) =>
            UNCHANGED <<inbound, outbound, in_shutdown, out_shutdown>>]_vars

C8_Witness ==
    /\ stop_calls = 2
    /\ Sentinels(in_put) = 1
    /\ Sentinels(out_put) = 1

-----------------------------------------------------------------------------
(* bus/queue.py: subscribe_outbound and notify_subscribers *)

Callbacks == {"cb1", "cb2"}

\* the except branch of notify_subscribers: is the message dead-lettered now
Mut_DeadLetterNow(dead_lettered) == TRUE
DeadLetterNow(dead_lettered) == ~dead_lettered

\* does the for loop go on to the next callback after this one's outcome
Mut_ContinuesAfter(outcome) == outcome = "ok"
ContinuesAfter(outcome) == TRUE

RECURSIVE NotifyFrom(_, _, _, _)
\* the for loop of notify_subscribers from callback i on; outcomes[i] says
\* whether callback i returns or raises; the result is the number of callbacks
\* invoked and the messages put on the dead-letter queue
NotifyFrom(outcomes, i, dead_lettered, msg) ==
    IF i > Len(outcomes) THEN [invoked |-> 0, dead |-> <<>>]
    ELSE
    LET put == outcomes[i] = "raise" /\ DeadLetterNow(dead_lettered)
        rest == IF ContinuesAfter(outcomes[i])
                THEN NotifyFrom(outcomes, i + 1, dead_lettered \/ put, msg)
                ELSE [invoked |-> 0, dead |-> <<>>]
    IN  [invoked |-> 1 + rest.invoked,
         dead |-> (IF put THEN <<msg>> ELSE <<>>) \o rest.dead]

\* subscribe_outbound(channel, callback)
SubscribeOutbound ==
    /\ \E c \in Channels : \E cb \in Callbacks :
        /\ Len(subscribers[c]) < MaxSubscribers
        /\ subscribers' = [subscribers EXCEPT ![c] = Append(@, cb)]
    /\ UNCHANGED <<dead_letters, last_notify>>
    /\ UNCHANGED <<spawn_vars, cache_vars, reg_vars, conc_vars, late_vars, det_vars, bus_vars, loop_vars>>

\* notify_subscribers(msg), each callback returning or raising
NotifySubscribers ==
    /\ Len(dead_letters) < MaxDeadLetters
    /\ \E c \in Channels :
       \E outcomes \in [1..Len(subscribers[c]) -> {"ok", "raise"}] :
        LET msg == [kind |-> "msg", id |-> 1, channel |-> c]
            r == NotifyFrom(outcomes, 1, FALSE, msg)
        IN  /\ dead_letters' = dead_letters \o r.dead
            /\ last_notify' =
                [msg |-> msg,
                 subscribed |-> Len(subscribers[c]),
                 invoked |-> r.invoked,
                 raised |-> Cardinality({i \in DOMAIN outcomes : outcomes[i] = "raise"}),
                 added |-> Len(r.dead)]
    /\ UNCHANGED subscribers
    /\ UNCHANGED <<spawn_vars, cache_vars, reg_vars, conc_vars, late_vars, det_vars, bus_vars, loop_vars>>

SubNext ==
    \/ SubscribeOutbound
    \/ NotifySubscribers

NotifyInit ==
    /\ SubInit
    /\ BusInit
    /\ DetIdle
    /\ LoopIdle

SpecNotify == NotifyInit /\ [][SubNext]_vars

\* C9 as stated: one dead-letter entry for each subscriber callback that raised
C9_OnePerFailedCallback ==
    /\ last_notify.invoked = last_notify.subscribed
    /\ last_notify.added = last_notify.raised

\* C9 (amended): notify_subscribers invokes every subscriber callback of the
\* message's channel even if earlier ones raise, and puts the message on the
\* dead-letter queue exactly once if at least one callback raised, however
\* many did, and not at all if none raised.
C9_OncePerNotify ==
    /\ last_notify.invoked = last_notify.subscribed
    /\ last_notify.added = (IF last_notify.raised > 0 THEN 1 ELSE 0)
    /\ last_notify.added = 1 =>
        dead_letters[Len(dead_letters)] = last_notify.msg

C9_Witness ==
    /\ last_notify.subscribed = 2
    /\ last_notify.invoked = 2
    /\ last_notify.raised = 2
    /\ last_notify.added = 1

-----------------------------------------------------------------------------
(* agent/tools/registry.py: ToolRegistry.execute *)

\* the tools AgentLoop._register_default_tools registers (no cron service)
main_tools ==
    {"read_file", "write_file", "edit_file", "list_dir", "exec", "web_search",
     "web_fetch", "message", "spawn", "update_plan"}

\* validate_params before the lookup
Mut_ToolRegistry_execute(tools, name, validation, body) ==
    IF validation = "errors"
    THEN [outcome |-> "returned", status |-> "validation_error", invoked |-> FALSE]
    ELSE IF name \notin tools
    THEN [outcome |-> "returned", status |-> "tool_not_found", invoked |-> FALSE]
    ELSE IF validation = "raise"
    THEN [outcome |-> "returned", status |-> "execution_error", invoked |-> FALSE]
    ELSE IF body = "cancel"
    THEN [outcome |-> "raised", status |-> "none", invoked |-> TRUE]
    ELSE IF body = "raise"
    THEN [outcome |-> "returned", status |-> "execution_error", invoked |-> TRUE]
    ELSE [outcome |-> "returned", status |-> "success", invoked |-> TRUE]

\* ToolRegistry.execute. validation is what tool.validate_params does ("none":
\* an empty list, "errors": a list of errors, "raise": an Exception); body is
\* what the awaited tool.execute does ("ok", "failed": a result that begins
\* with the failure marker, "raise": an Exception, "cancel": a BaseException
\* that is no Exception, as asyncio.CancelledError). outcome says whether the
\* call returns a ToolExecutionResult or raises; invoked whether tool.execute
\* was called
ToolRegistry_execute(tools, name, validation, body) ==
    IF name \notin tools
    THEN [outcome |-> "returned", status |-> "tool_not_found", invoked |-> FALSE]
    ELSE IF validation = "raise"
    THEN [outcome |-> "returned", status |-> "execution_error", invoked |-> FALSE]
    ELSE IF validation = "errors"
    THEN [outcome |-> "returned", status |-> "validation_error", invoked |-> FALSE]
    ELSE IF body = "cancel"
    THEN [outcome |-> "raised", status |-> "none", invoked |-> TRUE]
    ELSE IF body = "raise"
    THEN [outcome |-> "returned", status |-> "execution_error", invoked |-> TRUE]
    ELSE [outcome |-> "returned", status |-> "success", invoked |-> TRUE]

\* the status execute returns to the loops: valid says whether validate_params
\* found no error, body what the tool body does ("ok", "failed", "raise")
RegistryExecute(tools, name, valid, body) ==
    ToolRegistry_execute(tools, name, IF valid THEN "none" ELSE "errors",
                         body).status

STATUS_FAILED == "STATUS: FAILED"
STATUS_SUCCESS == "STATUS: SUCCESS"

\* the return value of a tool body: a text that begins with the failure
\* marker when the tool reports a failure of its own
ToolOutput(body) ==
    IF body = "failed" THEN <<STATUS_FAILED, "EXIT: 1">> ELSE <<STATUS_SUCCESS, "out">>

\* ToolExecutionResult.message for a status, as the pieces of its text
RegistryMessage(status, body) ==
    CASE status = "tool_not_found" -> <<STATUS_FAILED, "Error: Tool not found.">>
      [] status = "validation_error" -> <<STATUS_FAILED, "Invalid parameters for tool">>
      [] status = "execution_error" -> <<STATUS_FAILED, "Error executing">>
      [] OTHER -> ToolOutput(body)

\* result_text.startswith(STATUS_FAILED)
Mut_StartsWithFailed(status, body) == status # "success"
StartsWithFailed(status, body) == RegistryMessage(status, body)[1] = STATUS_FAILED

ReflectionSuffix == "[SYSTEM INTERVENTION] PROTOCOL: STOP."

\* the text add_tool_result records for an executed call of a user turn
ResultText(status, body) ==
    IF StartsWithFailed(status, body)
    THEN Append(RegistryMessage(status, body), ReflectionSuffix)
    ELSE RegistryMessage(status, body)

-----------------------------------------------------------------------------
(* agent/router.py: classify_intent *)

ClassifierResponses == {"simple", "complex", "empty", "invalid", "raise"}

\* short: len(content) < 15 and " " not in content; response: what the
\* provider's chat call gives back
classify_intent(short, litellm, response) ==
    IF short THEN FALSE
    ELSE IF ~litellm THEN TRUE
    ELSE IF response \in {"raise", "empty", "invalid"} THEN TRUE
    ELSE response = "complex"

-----------------------------------------------------------------------------
(* agent/loop.py: AgentLoop *)

MinReasonLen == 10
DefaultThreshold == 3
DefaultWindow == 6

\* bool(x)
Truthy(x) ==
    CASE x.t = "bool" -> x.v = <<"true">>
      [] x.t = "int" -> x.v # <<0>>
      [] x.t = "none" -> FALSE
      [] OTHER -> x.v # <<>>

IsSpace(c) == c \in {" ", "\t", "\n"}

RECURSIVE LStrip(_)
LStrip(cs) == IF cs # <<>> /\ IsSpace(Head(cs)) THEN LStrip(Tail(cs)) ELSE cs

RECURSIVE RStrip(_)
RStrip(cs) ==
    IF cs # <<>> /\ IsSpace(cs[Len(cs)])
    THEN RStrip(SubSeq(cs, 1, Len(cs) - 1))
    ELSE cs

\* str.strip()
Mut_Strip(cs) == cs
Strip(cs) == RStrip(LStrip(cs))

\* isinstance(reason, str) and len(reason.strip()) >= 10
ReasonOk(reason) == reason.t = "str" /\ Len(Strip(reason.v)) >= MinReasonLen

\* the force check rejects the call
ForceRejected(is_forced, reason) == is_forced /\ ~ReasonOk(reason)

\* if safety_err and not is_forced
Mut_SafetyBlocked(safety_err, is_forced) == safety_err # NoneResult
Mut_SafetyBlockedNever(safety_err, is_forced) == FALSE
SafetyBlocked(safety_err, is_forced) == safety_err # NoneResult /\ ~is_forced

\* f"{channel}:{chat_id}"
SessionKey(channel, chat_id) == <<channel, ":">> \o chat_id

CachedKeys(cache) == { cache[i].key : i \in DOMAIN cache }

Without(cache, key) ==
    LET Other(e) == e.key # key IN SelectSeq(cache, Other)

\* OscillationDetector(self.workspace)
FreshDetector == [history |-> <<>>, just_wrote |-> FALSE]

\* popitem(last=False) without move_to_end: first in, first out
Mut_TouchDetector(cache, key, limit) ==
    IF key \notin CachedKeys(cache)
    THEN LET kept == IF Len(cache) >= limit THEN Tail(cache) ELSE cache
         IN  Append(kept, [key |-> key, det |-> FreshDetector])
    ELSE cache

\* a new detector for every turn
Mut_TouchDetectorPerTurn(cache, key, limit) ==
    IF key \notin CachedKeys(cache)
    THEN LET kept == IF Len(cache) >= limit THEN Tail(cache) ELSE cache
         IN  Append(kept, [key |-> key, det |-> FreshDetector])
    ELSE Append(Without(cache, key), [key |-> key, det |-> FreshDetector])

\* the detector cache after the lookup at the start of a user turn
TouchDetector(cache, key, limit) ==
    IF key \notin CachedKeys(cache)
    THEN LET kept == IF Len(cache) >= limit
                     THEN Tail(cache) ELSE cache
         IN  Append(kept, [key |-> key, det |-> FreshDetector])
    ELSE LET e == CHOOSE x \in { cache[i] : i \in DOMAIN cache } : x.key = key
         IN  Append(Without(cache, key), e)

DetectorOf(cache, key) ==
    (CHOOSE x \in { cache[i] : i \in DOMAIN cache } : x.key = key).det

SetDetector(cache, key, d) ==
    [i \in DOMAIN cache |->
        IF cache[i].key = key THEN [key |-> key, det |-> d] ELSE cache[i]]

\* self._force_attempts.get(key, 0)
Attempts(fa, key) == IF key \in DOMAIN fa THEN fa[key] ELSE 0

SetAttempts(fa, key, n) ==
    [k \in DOMAIN fa \cup {key} |-> IF k = key THEN n ELSE fa[k]]

History(ss, key) == IF key \in DOMAIN ss THEN ss[key] ELSE <<>>

\* session.add_message("user", ...); session.add_message("assistant", ...); save
SavedTurn(ss, key, user, assistant) ==
    [k \in DOMAIN ss \cup {key} |->
        IF k = key
        THEN History(ss, key) \o <<[role |-> "user", content |-> user],
                                  [role |-> "assistant", content |-> assistant]>>
        ELSE ss[k]]

\* the detector once the safety interceptor is through with a call:
\* safety.check ran before force was looked at
Mut_AfterSafetyCheck(d, chk, is_forced) == IF is_forced THEN d ELSE chk.det
AfterSafetyCheck(d, chk, is_forced) == chk.det

\* if tool.name == "update_plan": the plan-update interceptor takes the call
Mut_Intercepted(name) == FALSE
Intercepted(name) == name = "update_plan"

\* the body of the for loop over response.tool_calls in a user turn, for one
\* tool call: what becomes of the detector, the force counter and the call
DispatchUser(call, d, attempts, valid, body) ==
    IF Intercepted(call.name)
    THEN [raised |-> FALSE, det |-> d, attempts |-> attempts, safety |-> "unchecked",
          executed |-> FALSE, result |-> "plan_ack", status |-> "none",
          reflection |-> FALSE, text |-> <<"Plan updated successfully.">>]
    ELSE
    LET is_forced == Truthy(Get(call.args, "force", Bool(FALSE)))
        reason == Get(call.args, "reason", NoneVal)
        chk == Check(d, DefaultThreshold, DefaultWindow, call.name, call.args)
        status == RegistryExecute(main_tools, call.name, valid, body)
    IN  IF chk.result = TypeErrorRaised
        THEN [raised |-> TRUE, det |-> chk.det, attempts |-> attempts,
              safety |-> chk.result, executed |-> FALSE, result |-> "none",
              status |-> "none", reflection |-> FALSE, text |-> <<>>]
        ELSE IF ForceRejected(is_forced, reason)
        THEN [raised |-> FALSE, det |-> AfterSafetyCheck(d, chk, is_forced), attempts |-> attempts + 1,
              safety |-> chk.result, executed |-> FALSE, result |-> "force_error",
              status |-> "none", reflection |-> FALSE,
              text |-> <<"Error: 'force' requires a non-empty 'reason'">>]
        ELSE IF SafetyBlocked(chk.result, is_forced)
        THEN [raised |-> FALSE, det |-> AfterSafetyCheck(d, chk, is_forced), attempts |-> attempts,
              safety |-> chk.result, executed |-> FALSE, result |-> "safety_block",
              status |-> "none", reflection |-> FALSE,
              text |-> <<chk.result, "ESCAPE HATCH">>]
        ELSE [raised |-> FALSE, det |-> AfterSafetyCheck(d, chk, is_forced), attempts |-> attempts,
              safety |-> chk.result, executed |-> TRUE, result |-> "executed",
              status |-> status, reflection |-> StartsWithFailed(status, body),
              text |-> ResultText(status, body)]

\* the final answer of a turn: the fallback when no content was produced
Fallback == "I've completed processing but have no response to give."
SystemFallback == "Background task completed."
FinalContent(kind, final) ==
    IF final \in {"unset", "none"}
    THEN (IF kind = "system" THEN SystemFallback ELSE Fallback)
    ELSE final

\* the content of a model response without tool calls: None, "" or a text
FinalAnswers == {"none", "empty", "text"}

\* what the drafting call leaves as the plan suffix: none when the call
\* raised, returned no content or unparsable JSON; the default rendering when
\* the JSON is no object; the rendered plan otherwise
DraftOutcomes == {"raise", "empty", "unparsable", "nondict", "plan"}
DraftedPlan(outcome) ==
    CASE outcome = "plan" -> "drafted"
      [] outcome = "nondict" -> "default"
      [] OTHER -> "none"

\* the start of _process_message for a user message
BeginUserTurn(entry, msg) ==
    LET key == SessionKey(msg.channel, msg.chat_id)
    IN  /\ osc' = TouchDetector(osc, key, cap)
        /\ turn' = [entry |-> entry, msg |-> msg, key |-> key, kind |-> "user",
                    to_channel |-> msg.channel, to_chat_id |-> msg.chat_id,
                    is_direct |-> FALSE, plan |-> "none", iteration |-> 0,
                    pending |-> 0, final |-> "unset", model_calls |-> 0,
                    draft_calls |-> 0]
        /\ pc' = "route"
        /\ turns' = turns + 1

\* what ends a turn hands back: run() publishes it, process_direct returns it
Mut_Deliver(content, channel, chat_id) ==
    IF turn.entry = "run" /\ content # "error"
    THEN /\ publish_outbound([kind |-> "msg", re |-> turn.msg.id, channel |-> channel,
                              chat_id |-> chat_id, content |-> content])
         /\ run_pc' = "top"
         /\ UNCHANGED <<inbound, in_shutdown, out_shutdown, in_put, in_late,
                        in_got, out_got, stop_calls, running>>
    ELSE /\ run_pc' = IF turn.entry = "run" THEN "top" ELSE run_pc
         /\ UNCHANGED <<bus_vars, running>>
Deliver(content, channel, chat_id) ==
    IF turn.entry = "run"
    THEN /\ publish_outbound([kind |-> "msg", re |-> turn.msg.id, channel |-> channel,
                              chat_id |-> chat_id, content |-> content])
         /\ run_pc' = "top"
         /\ UNCHANGED <<inbound, in_shutdown, out_shutdown, in_put, in_late,
                        in_got, out_got, stop_calls, running>>
    ELSE UNCHANGED <<bus_vars, run_pc, running>>

EndTurn(outcome, content, channel, chat_id) ==
    /\ pc' = "idle"
    /\ turn' = IdleTurn
    /\ last_done' = [outcome |-> outcome, kind |-> turn.kind, id |-> turn.msg.id,
                     entry |-> turn.entry, key |-> turn.key, content |-> content,
                     final |-> turn.final, model_calls |-> turn.model_calls,
                     draft_calls |-> turn.draft_calls,
                     iteration |-> turn.iteration,
                     to_channel |-> turn.to_channel, to_chat_id |-> turn.to_chat_id,
                     dropped |-> turn.entry = "run" /\ out_shutdown]
    /\ last_route' = NoRoute
    /\ Deliver(content, channel, chat_id)

\* how the classifier call of the routing phase ends for a content of type
\* ctype ("str", "bytes"): "escaped" when len(content) < 15 and the test
\* " " not in content raises outside classify_intent's try, "absorbed" when
\* the provider call or the parsing of its answer raised inside it
ClassifierError(ctype, short, litellm, response) ==
    IF ctype = "bytes" /\ short THEN "escaped"
    ELSE IF ~short /\ litellm /\ response \in {"raise", "invalid"} THEN "absorbed"
    ELSE "none"

\* is_direct once the try/except around classify_intent is through
RoutedDirect(ctype, short, litellm, response) ==
    IF ClassifierError(ctype, short, litellm, response) = "escaped"
    THEN FALSE
    ELSE classify_intent(short, litellm, response)

\* if is_direct: the detached planning call; otherwise straight to the
\* transcript and the first call of the while loop
Mut_AfterRouting(is_direct) == "draft"

AfterRouting(is_direct) == IF is_direct THEN "draft" ELSE "model"

\* await classify_intent(...): the content is short or not, the provider is a
\* LiteLLMProvider or not, and its chat call answers one way or another
Route ==
    /\ pc = "route"
    /\ \E ctype \in {"str", "bytes"} : \E short \in BOOLEAN : \E litellm \in BOOLEAN :
       \E response \in ClassifierResponses :
        LET is_direct == RoutedDirect(ctype, short, litellm, response)
        IN  /\ turn' = [turn EXCEPT !.is_direct = is_direct]
            /\ pc' = AfterRouting(is_direct)
            /\ last_route' = [error |-> ClassifierError(ctype, short, litellm, response),
                              short |-> short, response |-> response,
                              is_direct |-> is_direct, next |-> pc']
    /\ last_tool' = NoTool
    /\ last_done' = NoDone
    /\ UNCHANGED <<running, run_pc, osc, force_attempts, sessions, catalog, turns>>
    /\ UNCHANGED <<spawn_vars, cache_vars, reg_vars, conc_vars, late_vars, det_vars, bus_vars, sub_vars>>

\* C11: ROUTE fails open: on any error from the intent classifier, absorbed
\* inside classify_intent or caught by the loop's own handler, the user turn
\* is routed as complex and the DRAFT model call is attempted.
C11_RouteFailsOpen ==
    last_route.error \in {"absorbed", "escaped"} =>
        (last_route.is_direct /\ pc = "draft")

\* the detached planning call
Draft ==
    /\ pc = "draft"
    /\ \E outcome \in DraftOutcomes :
        turn' = [turn EXCEPT !.plan = DraftedPlan(outcome),
                             !.draft_calls = @ + 1]
    /\ pc' = "model"
    /\ last_tool' = NoTool
    /\ last_done' = NoDone
    /\ last_route' = NoRoute
    /\ UNCHANGED <<running, run_pc, osc, force_attempts, sessions, catalog, turns>>
    /\ UNCHANGED <<spawn_vars, cache_vars, reg_vars, conc_vars, late_vars, det_vars, bus_vars, sub_vars>>

\* a user turn past its routing phase
Routed == turn.entry # "none" /\ turn.kind = "user" /\ pc # "route"

\* C25: a user message classified simple skips DRAFT: no drafting call is
\* made for it, its first model call after routing is the EXECUTE call (the
\* one given the tool catalog) and the transcript of that call has no plan
\* suffix; DRAFT is attempted at most once per turn, and only for a message
\* routed complex
C25_SimpleSkipsDraft ==
    /\ (last_route # NoRoute /\ ~last_route.is_direct) =>
           (pc = "model" /\ turn.draft_calls = 0 /\ turn.model_calls = 0
               /\ turn.plan = "none")
    /\ Routed =>
           /\ ~turn.is_direct => (turn.draft_calls = 0 /\ turn.plan = "none" /\ pc # "draft")
           /\ turn.draft_calls <= 1
           /\ turn.draft_calls = 1 => turn.is_direct
           /\ pc = "draft" => (turn.is_direct /\ turn.draft_calls = 0 /\ turn.model_calls = 0)
    /\ last_done.outcome # "none" /\ last_done.kind = "user" => last_done.draft_calls <= 1

\* a turn routed simple has made its first EXECUTE call, which asked for
\* tools, and no drafting call
C25_Witness ==
    /\ Routed /\ ~turn.is_direct
    /\ pc = "tools" /\ turn.model_calls = 1 /\ turn.draft_calls = 0
    /\ turn.plan = "none"

\* one round of the while loop: the model answers with tool calls
ModelRequestsTools ==
    /\ pc = "model"
    /\ catalog # {}
    /\ \E n \in 1..MaxToolCalls :
        turn' = [turn EXCEPT !.iteration = @ + 1, !.model_calls = @ + 1,
                             !.pending = n]
    /\ pc' = "tools"
    /\ last_tool' = NoTool
    /\ last_done' = NoDone
    /\ last_route' = NoRoute
    /\ UNCHANGED <<running, run_pc, osc, force_attempts, sessions, catalog, turns>>
    /\ UNCHANGED <<spawn_vars, cache_vars, reg_vars, conc_vars, late_vars, det_vars, bus_vars, sub_vars>>

\* one round of the while loop: the model answers without tool calls
ModelAnswers ==
    /\ pc = "model"
    /\ \E content \in FinalAnswers :
        turn' = [turn EXCEPT !.iteration = @ + 1, !.model_calls = @ + 1,
                             !.final = content]
    /\ pc' = "finalize"
    /\ last_tool' = NoTool
    /\ last_done' = NoDone
    /\ last_route' = NoRoute
    /\ UNCHANGED <<running, run_pc, osc, force_attempts, sessions, catalog, turns>>
    /\ UNCHANGED <<spawn_vars, cache_vars, reg_vars, conc_vars, late_vars, det_vars, bus_vars, sub_vars>>

\* where the turn goes once a tool call is dealt with
AfterToolCall(t) ==
    IF t.pending > 1 THEN "tools"
    ELSE IF t.iteration < max_iterations THEN "model"
    ELSE "finalize"

\* the next tool call of the response goes through the interceptors
DispatchTool ==
    /\ pc = "tools"
    /\ turn.kind = "user"
    /\ \E call \in catalog : \E valid \in BOOLEAN : \E body \in {"ok", "failed", "raise"} :
        \E r \in {DispatchUser(call, DetectorOf(osc, turn.key),
                                Attempts(force_attempts, turn.key), valid, body)} :
            /\ ~r.raised
            /\ osc' = SetDetector(osc, turn.key, r.det)
            /\ force_attempts' =
                IF r.attempts # Attempts(force_attempts, turn.key)
                THEN SetAttempts(force_attempts, turn.key, r.attempts)
                ELSE force_attempts
            /\ last_tool' = [name |-> call.name, call |-> call, key |-> turn.key,
                             raised |-> FALSE, safety |-> r.safety,
                             executed |-> r.executed, result |-> r.result,
                             status |-> r.status, reflection |-> r.reflection,
                             text |-> r.text,
                             attempts_before |-> Attempts(force_attempts, turn.key),
                             attempts_after |-> r.attempts]
    /\ turn' = [turn EXCEPT !.pending = @ - 1]
    /\ pc' = AfterToolCall(turn)
    /\ last_done' = NoDone
    /\ last_route' = NoRoute
    /\ UNCHANGED <<running, run_pc, sessions, catalog, turns>>
    /\ UNCHANGED <<spawn_vars, cache_vars, reg_vars, conc_vars, late_vars, det_vars, bus_vars, sub_vars>>

\* the next tool call makes the detector raise: the exception leaves
\* _process_message and reaches the handler of run() or process_direct
DispatchRaises ==
    /\ pc = "tools"
    /\ turn.kind = "user"
    /\ \E call \in catalog :
        \E r \in {DispatchUser(call, DetectorOf(osc, turn.key),
                                Attempts(force_attempts, turn.key), TRUE, "ok")} :
            /\ r.raised
            /\ last_tool' = [name |-> call.name, call |-> call, key |-> turn.key,
                             raised |-> TRUE, safety |-> r.safety,
                             executed |-> FALSE, result |-> r.result,
                             status |-> r.status, reflection |-> FALSE,
                             attempts_before |-> Attempts(force_attempts, turn.key),
                             attempts_after |-> r.attempts]
    /\ EndTurn("raised", "error", turn.msg.channel, turn.msg.chat_id)
    /\ UNCHANGED <<osc, force_attempts, sessions, catalog, turns>>
    /\ UNCHANGED <<spawn_vars, cache_vars, reg_vars, conc_vars, late_vars, det_vars, sub_vars>>

\* FINALIZE: fallback, session save, the response
Finalize ==
    /\ pc = "finalize"
    /\ sessions' = SavedTurn(sessions, turn.key, turn.msg.id,
                              FinalContent(turn.kind, turn.final))
    /\ EndTurn("finalized", FinalContent(turn.kind, turn.final),
               turn.to_channel, turn.to_chat_id)
    /\ last_tool' = NoTool
    /\ UNCHANGED <<osc, force_attempts, catalog, turns>>
    /\ UNCHANGED <<spawn_vars, cache_vars, reg_vars, conc_vars, late_vars, det_vars, sub_vars>>

\* process_direct(content, session_key): a turn that does not come from the
\* bus; a behaviour follows one such turn
ProcessDirect ==
    /\ pc = "idle"
    /\ run_pc = "off"
    /\ turns = 0
    /\ \E key \in Sessions :
        BeginUserTurn("direct", [kind |-> "msg", id |-> turns + 1, channel |-> key[1],
                                 chat_id |-> SubSeq(key, 3, Len(key))])
    /\ last_tool' = NoTool
    /\ last_done' = NoDone
    /\ last_route' = NoRoute
    /\ UNCHANGED <<running, run_pc, force_attempts, sessions, catalog>>
    /\ UNCHANGED <<spawn_vars, cache_vars, reg_vars, conc_vars, late_vars, det_vars, bus_vars, sub_vars>>

-----------------------------------------------------------------------------
(* User turns entered through process_direct *)

TenChars == Rep("x", 10)
PaddedReason == Rep(" ", 4) \o Rep("x", 3) \o Rep(" ", 3)
ReadA == [path |-> Str(<<"a">>)]

Forced(args, force, reason) ==
    [k \in DOMAIN args \cup {"force", "reason"} |->
        IF k = "force" THEN force ELSE IF k = "reason" THEN reason ELSE args[k]]

WriteCall == Call("write_file", [path |-> Str(<<"a">>), content |-> Str(<<"x">>)])

\* an update_plan call whose strategy is no list and which sets force without
\* a reason
PlanCall == Call("update_plan", [strategy |-> Str(<<"s">>), force |-> Bool(TRUE)])

BadForceRead == Call("read_file", Forced(ReadA, Bool(TRUE), Str(Rep("x", 5))))

LoopCalls ==
    { Call("read_file", ReadA),
      Call("read_file", Forced(ReadA, Bool(TRUE), Str(Rep("x", 5)))),
      Call("read_file", Forced(ReadA, Bool(TRUE), Str(TenChars))),
      Call("read_file", Forced(ReadA, Bool(TRUE), Str(PaddedReason))),
      Call("read_file", Forced(ReadA, Bool(TRUE), Int(1234567890))),
      Call("read_file", [path |-> Str(<<"a">>), force |-> Str(<<"y", "e", "s">>)]),
      WriteCall,
      Call("exec", [command |-> Int(42), force |-> Bool(TRUE)]),
      PlanCall,
      Call("nope", [path |-> Str(<<"a">>)]) }

\* the requests a behaviour's model makes: none, one request over and over,
\* one request and a write, or plan updates and reads with a rejected force
Catalogs(calls) ==
    {{}} \cup { {c} : c \in calls } \cup { {c, WriteCall} : c \in calls }
        \cup {{PlanCall, BadForceRead}}

TurnInit ==
    /\ \E calls \in Catalogs(LoopCalls) : LoopInitWith(calls)
    /\ DetIdle
    /\ BusInit
    /\ SubInit

TurnNext ==
    \/ ProcessDirect
    \/ Route
    \/ Draft
    \/ ModelRequestsTools
    \/ ModelAnswers
    \/ DispatchTool
    \/ DispatchRaises
    \/ Finalize

SpecTurn == TurnInit /\ [][TurnNext]_vars

ForceSet(call) == Truthy(Get(call.args, "force", Bool(FALSE)))
ReasonOf(call) == Get(call.args, "reason", NoneVal)
Dispatched == last_tool.name # "none"

\* C32: a tool call to update_plan in a user turn involves neither the
\* detector nor the validator nor the registry: the step that deals with it
\* leaves the detector cache (every window in it) and the force counters as
\* they were, Registry.execute is not invoked and the fixed acknowledgement is
\* its tool result, whatever its arguments
C32_PlanUpdateBypasses ==
    [][ last_tool'.name = "update_plan" =>
            /\ osc' = osc
            /\ force_attempts' = force_attempts
            /\ ~last_tool'.executed
            /\ last_tool'.status = "none"
            /\ last_tool'.safety = "unchecked"
            /\ last_tool'.result = "plan_ack" ]_vars

\* an update_plan call that sets force without a reason and has a strategy
\* that is no list was acknowledged while the session's window held a
\* signature and its force counter was above zero
C32_Witness ==
    /\ last_tool.name = "update_plan"
    /\ last_tool.call = PlanCall
    /\ last_tool.result = "plan_ack"
    /\ DetectorOf(osc, last_tool.key).history # <<>>
    /\ last_tool.attempts_after > 0

\* C38: in a user turn the detector is consulted on every tool call other
\* than update_plan before force is examined: whether the call is then
\* rejected for an invalid force, forced past a refusal, refused or executed,
\* the step leaves the session's window as check() leaves it for an ordinary
\* call (a read appends its signature, a write clears the window); an
\* update_plan call leaves the detector cache as it was
C38_CheckedBeforeForce ==
    [][ (last_tool'.name # "none" /\ ~last_tool'.raised) =>
            LET call == last_tool'.call
                before == DetectorOf(osc, last_tool'.key)
                after == DetectorOf(osc', last_tool'.key)
            IN  IF call.name = "update_plan" THEN osc' = osc
                ELSE /\ after.history =
                           (IF IsWrite(call.name, call.args) THEN <<>>
                            ELSE Append_maxlen(before.history,
                                               Signature(call.name, call.args),
                                               DefaultWindow))
                     /\ IsWrite(call.name, call.args) => after.just_wrote
                     /\ last_tool'.safety \in {NoneResult, Refusal} ]_vars

\* a read with a valid force went past a refusal, and its signature is in the
\* window a fourth time
C38_Witness ==
    /\ Dispatched
    /\ last_tool.safety = Refusal
    /\ last_tool.executed
    /\ ForceSet(last_tool.call)
    /\ Len(DetectorOf(osc, last_tool.key).history) = 4

\* a read rejected for its invalid force is in the window all the same
C38_RejectedWitness ==
    /\ Dispatched
    /\ last_tool.result = "force_error"
    /\ last_tool.call = BadForceRead
    /\ Len(DetectorOf(osc, last_tool.key).history) = 2

\* C35: in a user turn every tool result recorded for a call whose execution
\* failed (registry status validation_error, tool_not_found or
\* execution_error, or a tool body result that begins with the failure
\* marker) ends with the reflection suffix, and the result of no successful
\* execution carries it
C35_FailedCarriesReflection ==
    (Dispatched /\ last_tool.executed) =>
        LET text == last_tool.text
            failed ==
                \/ last_tool.status \in {"validation_error", "tool_not_found",
                                         "execution_error"}
                \/ text[1] = STATUS_FAILED
        IN  /\ failed => text[Len(text)] = ReflectionSuffix
            /\ ~failed => \A i \in DOMAIN text : text[i] # ReflectionSuffix

\* a tool body ran, the registry reported success, and the body's own result
\* began with the failure marker
C35_Witness ==
    /\ Dispatched
    /\ last_tool.executed
    /\ last_tool.status = "success"
    /\ last_tool.text = <<STATUS_FAILED, "EXIT: 1", ReflectionSuffix>>

\* C2: in a user turn a tool call other than update_plan that sets force to a
\* truthy value while reason is missing, no string or shorter than 10
\* characters after stripping is always rejected with the fixed force error:
\* Registry.execute is not invoked and the session's force counter goes up by
\* exactly one; the counter changes on no other path.
C2_BadForceAlwaysRejected ==
    Dispatched =>
        /\ ( /\ last_tool.name # "update_plan"
             /\ ForceSet(last_tool.call)
             /\ \/ ReasonOf(last_tool.call).t # "str"
                \/ Len(Strip(ReasonOf(last_tool.call).v)) < 10 )
           => ( /\ last_tool.result = "force_error"
                /\ ~last_tool.executed
                /\ last_tool.attempts_after = last_tool.attempts_before + 1 )
        /\ last_tool.attempts_after # last_tool.attempts_before
           => last_tool.result = "force_error"

\* C3 as stated: a reason of at least 10 characters
C3_TenCharsBypass ==
    ( /\ Dispatched
      /\ last_tool.safety = Refusal
      /\ Get(last_tool.call.args, "force", Bool(FALSE)) = Bool(TRUE)
      /\ ReasonOf(last_tool.call).t = "str"
      /\ Len(ReasonOf(last_tool.call).v) >= 10 )
    => (last_tool.executed /\ last_tool.result = "executed")

\* C3 (amended): in a user turn a tool call with force=true and a reason of at
\* least 10 characters after stripping surrounding whitespace bypasses a
\* Safety Detector refusal: the call proceeds to Registry.execute and the
\* execution result, not the refusal, is recorded.
C3_StrippedTenCharsBypass ==
    ( /\ Dispatched
      /\ last_tool.safety = Refusal
      /\ Get(last_tool.call.args, "force", Bool(FALSE)) = Bool(TRUE)
      /\ ReasonOf(last_tool.call).t = "str"
      /\ Len(Strip(ReasonOf(last_tool.call).v)) >= 10 )
    => (last_tool.executed /\ last_tool.result = "executed")

C3_Witness ==
    /\ Dispatched
    /\ last_tool.safety = Refusal
    /\ Get(last_tool.call.args, "force", Bool(FALSE)) = Bool(TRUE)
    /\ ReasonOf(last_tool.call) = Str(TenChars)
    /\ last_tool.executed
    /\ last_tool.status = "success"

\* C10: every user turn reaches FINALIZE after at most max_iterations EXECUTE
\* model calls, whatever happens to its tool calls; the fixed fallback text is
\* the final answer exactly when no response without tool calls came within
\* the budget or that response had no content.
C10_TurnReachesFinalize ==
    (last_done.outcome # "none" /\ last_done.kind = "user") =>
        /\ last_done.outcome = "finalized"
        /\ last_done.model_calls <= max_iterations
        /\ (last_done.content = Fallback) <=> (last_done.final \in {"unset", "none"})

\* C21: in a user turn a tool call the detector refuses and that does not set
\* force is rejected: Registry.execute is not invoked and the recorded result
\* is the refusal followed by the escape-hatch hint; and a call other than
\* update_plan that the detector allows and that does not set force always
\* proceeds to Registry.execute.
C21_RefusedBlockedAllowedRuns ==
    (Dispatched /\ last_tool.safety # "unchecked" /\ ~ForceSet(last_tool.call)) =>
        /\ last_tool.safety = Refusal =>
               (~last_tool.executed /\ last_tool.result = "safety_block"
                    /\ last_tool.status = "none")
        /\ (last_tool.safety = NoneResult /\ last_tool.name # "update_plan") =>
               (last_tool.executed /\ last_tool.result = "executed"
                    /\ last_tool.status # "none")

\* the third identical read of a turn, refused and not forced
C21_Witness ==
    /\ Dispatched
    /\ last_tool.safety = Refusal
    /\ "force" \notin DOMAIN last_tool.call.args
    /\ last_tool.result = "safety_block"
    /\ ~last_tool.executed

-----------------------------------------------------------------------------
(* Turns entered through run(): the loop, the bus, producers and stop() *)

RECURSIVE IndexOf(_, _, _)
\* text.find(piece), from position i on; 0 when absent
IndexOf(pieces, piece, i) ==
    IF i > Len(pieces) THEN 0
    ELSE IF pieces[i] = piece THEN i
    ELSE IndexOf(pieces, piece, i + 1)

\* a string of one piece is that piece
Joined(pieces) == IF Len(pieces) = 1 THEN pieces[1] ELSE pieces

\* the origin _process_system_message reads from chat_id
OriginOf(chat_id) ==
    LET at == IndexOf(chat_id, ":", 1)
    IN  IF at > 0
        THEN [channel |-> Joined(SubSeq(chat_id, 1, at - 1)),
              chat_id |-> SubSeq(chat_id, at + 1, Len(chat_id))]
        ELSE [channel |-> "cli", chat_id |-> chat_id]

\* the start of _process_system_message
Mut_BeginSystemTurn(msg) == BeginUserTurn("run", msg)
BeginSystemTurn(msg) ==
    LET origin == OriginOf(msg.chat_id)
    IN  /\ turn' = [entry |-> "run", msg |-> msg,
                    key |-> SessionKey(origin.channel, origin.chat_id),
                    kind |-> "system",
                    to_channel |-> origin.channel, to_chat_id |-> origin.chat_id,
                    is_direct |-> FALSE, plan |-> "none", iteration |-> 0,
                    pending |-> 0, final |-> "unset", model_calls |-> 0,
                    draft_calls |-> 0]
        /\ pc' = "model"
        /\ turns' = turns + 1
        /\ osc' = osc

\* consume_inbound() returns: end-of-stream leaves the loop, a message starts
\* its turn
ConsumeAndBegin ==
    /\ consume_inbound
    /\ LET item == ConsumeResult(QueueGet(inbound))
       IN  IF item = EndOfStream
           THEN /\ running' = FALSE
                /\ run_pc' = "exited"
                /\ UNCHANGED <<pc, turn, osc, turns>>
           ELSE /\ run_pc' = "turn"
                /\ running' = running
                /\ IF item.channel = "system"
                   THEN BeginSystemTurn(item)
                   ELSE BeginUserTurn("run", item)
    /\ last_tool' = NoTool
    /\ last_done' = NoDone
    /\ last_route' = NoRoute
    /\ UNCHANGED <<outbound, in_shutdown, out_shutdown, in_put, out_put,
                   in_late, out_late, out_got, stop_calls>>
    /\ UNCHANGED <<force_attempts, sessions, catalog>>
    /\ UNCHANGED <<spawn_vars, cache_vars, reg_vars, conc_vars, late_vars, det_vars, sub_vars>>

\* run() is called
RunStart ==
    /\ run_pc = "off"
    /\ pc = "idle"
    /\ running' = TRUE
    /\ run_pc' = "top"
    /\ last_tool' = NoTool
    /\ last_done' = NoDone
    /\ last_route' = NoRoute
    /\ UNCHANGED <<pc, turn, osc, force_attempts, sessions, catalog, turns>>
    /\ UNCHANGED <<spawn_vars, cache_vars, reg_vars, conc_vars, late_vars, det_vars, bus_vars, sub_vars>>

\* the top of the while loop finds the flag cleared: run() returns
RunExits ==
    /\ run_pc = "top"
    /\ ~running
    /\ run_pc' = "exited"
    /\ last_tool' = NoTool
    /\ last_done' = NoDone
    /\ last_route' = NoRoute
    /\ UNCHANGED <<running, pc, turn, osc, force_attempts, sessions, catalog, turns>>
    /\ UNCHANGED <<spawn_vars, cache_vars, reg_vars, conc_vars, late_vars, det_vars, bus_vars, sub_vars>>

\* the top of the while loop with the flag set and nothing queued: the loop
\* suspends in consume_inbound
RunWaits ==
    /\ run_pc = "top"
    /\ running
    /\ inbound = <<>>
    /\ run_pc' = "consume"
    /\ last_tool' = NoTool
    /\ last_done' = NoDone
    /\ last_route' = NoRoute
    /\ UNCHANGED <<running, pc, turn, osc, force_attempts, sessions, catalog, turns>>
    /\ UNCHANGED <<spawn_vars, cache_vars, reg_vars, conc_vars, late_vars, det_vars, bus_vars, sub_vars>>

\* the top of the while loop with the flag set and an item queued
RunTakes ==
    /\ run_pc = "top"
    /\ running
    /\ ConsumeAndBegin

\* the loop suspended in consume_inbound is handed an item
RunWakes ==
    /\ run_pc = "consume"
    /\ ConsumeAndBegin

\* one tool call of a system turn: straight to the registry
DispatchSystem ==
    /\ pc = "tools"
    /\ turn.kind = "system"
    /\ \E call \in catalog : \E valid \in BOOLEAN : \E body \in {"ok", "failed", "raise"} :
        LET status == RegistryExecute(main_tools, call.name, valid, body)
        IN  last_tool' = [name |-> call.name, call |-> call, key |-> turn.key,
                          raised |-> FALSE, safety |-> "unchecked",
                          executed |-> TRUE, result |-> "executed",
                          status |-> status, reflection |-> FALSE,
                          attempts_before |-> Attempts(force_attempts, turn.key),
                          attempts_after |-> Attempts(force_attempts, turn.key)]
    /\ turn' = [turn EXCEPT !.pending = @ - 1]
    /\ pc' = AfterToolCall(turn)
    /\ last_done' = NoDone
    /\ last_route' = NoRoute
    /\ UNCHANGED <<running, run_pc, osc, force_attempts, sessions, catalog, turns>>
    /\ UNCHANGED <<spawn_vars, cache_vars, reg_vars, conc_vars, late_vars, det_vars, bus_vars, sub_vars>>

\* a provider.chat call of a system turn raises (a provider that does not
\* absorb its own errors): the exception leaves _process_message
SystemTurnRaises ==
    /\ pc = "model"
    /\ turn.kind = "system"
    /\ last_tool' = NoTool
    /\ EndTurn("raised", "error", turn.msg.channel, turn.msg.chat_id)
    /\ UNCHANGED <<osc, force_attempts, sessions, catalog, turns>>
    /\ UNCHANGED <<spawn_vars, cache_vars, reg_vars, conc_vars, late_vars, det_vars, sub_vars>>

\* AgentLoop.stop(), called while the loop is suspended or not running
LoopStop ==
    /\ run_pc # "top"
    /\ stop_calls < MaxStops
    /\ running' = FALSE
    /\ bus_stop
    /\ last_tool' = NoTool
    /\ last_done' = NoDone
    /\ last_route' = NoRoute
    /\ UNCHANGED <<in_late, out_late, in_got, out_got>>
    /\ UNCHANGED <<run_pc, pc, turn, osc, force_attempts, sessions, catalog, turns>>
    /\ UNCHANGED <<spawn_vars, cache_vars, reg_vars, conc_vars, late_vars, det_vars, sub_vars>>

InboundCount == Len(Msgs(in_put)) + Len(in_late)

RunSession == <<"cli", ":", "1">>

\* a channel publishes a user message, or a subagent its announce
ProducerPublish ==
    /\ run_pc # "top"
    /\ InboundCount < MaxInbound
    /\ \E system \in BOOLEAN :
        publish_inbound(
            IF system
            THEN [kind |-> "msg", id |-> InboundCount + 1, channel |-> "system",
                  chat_id |-> RunSession]
            ELSE [kind |-> "msg", id |-> InboundCount + 1, channel |-> RunSession[1],
                  chat_id |-> SubSeq(RunSession, 3, Len(RunSession))])
    /\ last_tool' = NoTool
    /\ last_done' = NoDone
    /\ last_route' = NoRoute
    /\ UNCHANGED <<outbound, in_shutdown, out_shutdown, out_put, out_late,
                   in_got, out_got, stop_calls>>
    /\ UNCHANGED <<running, run_pc, pc, turn, osc, force_attempts, sessions,
                   catalog, turns>>
    /\ UNCHANGED <<spawn_vars, cache_vars, reg_vars, conc_vars, late_vars, det_vars, sub_vars>>

ReadCall == Call("read_file", ReadA)
RaisingCall == Call("exec", [command |-> Int(42), force |-> Bool(TRUE)])

RunInit ==
    /\ \E calls \in {{}, {ReadCall}, {RaisingCall}} : LoopInitWith(calls)
    /\ DetIdle
    /\ BusInit
    /\ SubInit

RunNext ==
    \/ RunStart
    \/ RunExits
    \/ RunWaits
    \/ RunTakes
    \/ RunWakes
    \/ Route
    \/ Draft
    \/ ModelRequestsTools
    \/ ModelAnswers
    \/ DispatchTool
    \/ DispatchRaises
    \/ DispatchSystem
    \/ SystemTurnRaises
    \/ Finalize
    \/ LoopStop
    \/ ProducerPublish

SpecRun == RunInit /\ [][RunNext]_vars

-----------------------------------------------------------------------------
(* A turn through process_direct, then run() and an announce *)

AnnounceInit ==
    /\ LoopInitWith({PlanCall, BadForceRead})
    /\ DetIdle
    /\ BusInit
    /\ SubInit

\* a subagent publishes its announce, the first message on the bus
AnnounceArrives ==
    /\ run_pc # "top"
    /\ in_put = <<>>
    /\ publish_inbound([kind |-> "msg", id |-> 1, channel |-> "system",
                        chat_id |-> RunSession])
    /\ last_tool' = NoTool
    /\ last_done' = NoDone
    /\ last_route' = NoRoute
    /\ UNCHANGED <<outbound, in_shutdown, out_shutdown, out_put, out_late,
                   in_got, out_got, stop_calls>>
    /\ UNCHANGED <<running, run_pc, pc, turn, osc, force_attempts, sessions,
                   catalog, turns>>
    /\ UNCHANGED <<spawn_vars, cache_vars, reg_vars, conc_vars, late_vars, det_vars, sub_vars>>

\* stop() is never called and the model's requests make no detector raise
AnnounceNext ==
    \/ ProcessDirect
    \/ RunStart
    \/ RunWaits
    \/ RunTakes
    \/ RunWakes
    \/ Route
    \/ Draft
    \/ ModelRequestsTools
    \/ ModelAnswers
    \/ DispatchTool
    \/ DispatchSystem
    \/ SystemTurnRaises
    \/ Finalize
    \/ AnnounceArrives

SpecAnnounce == AnnounceInit /\ [][AnnounceNext]_vars

\* the turn in progress is that of a message of the system channel
InSystemTurn == turn.entry # "none" /\ turn.msg.channel = "system"

\* C34: processing a system (subagent-announce) message uses the same
\* bounded loop of model calls but never calls the intent classifier, never
\* makes a drafting call, never intercepts update_plan and never consults or
\* changes a detector, the order of the detector cache or a force counter:
\* every tool call it receives goes straight to Registry.execute
C34_SystemTurnIsBare ==
    [][ (InSystemTurn \/ InSystemTurn') =>
            /\ osc' = osc
            /\ force_attempts' = force_attempts
            /\ last_route' = NoRoute
            /\ pc' \notin {"route", "draft"}
            /\ InSystemTurn' =>
                /\ turn'.draft_calls = 0
                /\ turn'.plan = "none"
                /\ turn'.iteration <= max_iterations
                /\ turn'.model_calls = turn'.iteration
            /\ last_tool'.name # "none" =>
                /\ last_tool'.executed
                /\ last_tool'.result = "executed"
                /\ last_tool'.safety = "unchecked"
                /\ last_tool'.attempts_after = last_tool'.attempts_before ]_vars

\* a system turn handed an update_plan call to the registry in its last
\* round, while the cache held a detector of its session with a signature in
\* the window and the session's force counter was above zero
C34_Witness ==
    /\ InSystemTurn
    /\ turn.iteration = max_iterations
    /\ last_tool.name = "update_plan"
    /\ last_tool.executed
    /\ turn.key \in CachedKeys(osc)
    /\ DetectorOf(osc, turn.key).history # <<>>
    /\ Attempts(force_attempts, turn.key) > 0

\* the steps of the task that runs run(): the event loop resumes it whenever
\* it can go on, and every model or tool call it awaits returns
RunTaskAdvances ==
    \/ RunExits
    \/ RunWaits
    \/ RunTakes
    \/ RunWakes
    \/ Route
    \/ Draft
    \/ ModelRequestsTools
    \/ ModelAnswers
    \/ DispatchTool
    \/ DispatchRaises
    \/ DispatchSystem
    \/ SystemTurnRaises
    \/ Finalize

FairSpecRun == RunInit /\ [][RunNext]_vars /\ WF_vars(RunTaskAdvances)

\* the messages run() has consumed, and whether the turn of one is over
Consumed == { in_got[i] : i \in {j \in DOMAIN in_got : IsMsg(in_got[j])} }
TurnOver(m) == ~(pc # "idle" /\ turn.msg = m)
AnswersTo(log, m) ==
    Cardinality({ i \in DOMAIN log : IsMsg(log[i]) /\ log[i].re = m.id })

C13_TurnAlwaysSaved ==
    [][ (last_done'.outcome # "none" /\ last_done'.kind = "user") =>
            History(sessions', last_done'.key) =
                History(sessions, last_done'.key)
                \o <<[role |-> "user", content |-> last_done'.id],
                      [role |-> "assistant", content |-> last_done'.content]>> ]_vars

\* the outbound messages published for inbound message id, enqueued or dropped
PublishedFor(id) ==
    { out_put[i] : i \in {k \in DOMAIN out_put : IsMsg(out_put[k]) /\ out_put[k].re = id} }
    \cup { out_late[i] : i \in {k \in DOMAIN out_late : out_late[k].re = id} }

\* C12: an exception raised while processing one inbound message never
\* terminates run(): it is answered with an apology addressed to a real
\* channel and the chat the failing turn belongs to (for a failing
\* subagent-announce turn the origin channel and chat, not the reserved
\* system channel), the loop goes on to its next consume cycle, and only
\* stop() ends the loop.
C12_ApologyReachesUser ==
    /\ (run_pc = "exited") => (stop_calls > 0)
    /\ (last_done.outcome = "raised" /\ last_done.entry = "run") =>
        /\ run_pc = "top"
        /\ \A m \in PublishedFor(last_done.id) :
            /\ m.content = "error"
            /\ m.channel # "system"
            /\ m.channel = last_done.to_channel
            /\ m.chat_id = last_done.to_chat_id

\* C19: once stop() has been called, a run() that is or gets started
\* eventually returns with the running flag cleared: a loop suspended in
\* consume_inbound is woken by the sentinel, a loop in a turn leaves at the top
\* of its next cycle, and a run() started after stop() leaves when it reads
\* the sentinel
C19_StopEndsRun ==
    (stop_calls > 0 /\ run_pc # "off") ~> (run_pc = "exited" /\ ~running)

\* a run() started after stop() that has read the sentinel and returned
C19_Witness ==
    /\ run_pc = "exited"
    /\ ~running
    /\ stop_calls = 1
    /\ in_got # <<>>
    /\ in_got[Len(in_got)] = EndOfStream
    /\ in_put[1] = InboundShutdown

\* stop() was called while run() was active, and run() has not left yet: the
\* flag is cleared by nothing else before run() returns
StoppedWhileActive == ~running /\ run_pc \in {"consume", "turn"}

\* C39: once stop() has been called while run() is active, at most the turn
\* already in progress completes: no inbound message still waiting in the
\* queue starts a turn afterwards, and the response of the turn in flight is
\* dropped by the stopped bus, not enqueued on the outbound queue
C39_OnlyInFlightTurnCompletes ==
    [][ StoppedWhileActive =>
            /\ ~(pc = "idle" /\ pc' # "idle")
            /\ last_done'.outcome # "none" =>
                   (last_done'.dropped /\ outbound' = outbound /\ out_put' = out_put) ]_vars

\* what the code guarantees: the response of a turn that ends after stop() is
\* dropped, and after such a turn run() takes nothing more from the queue
InFlightResponseDropped ==
    [][ StoppedWhileActive =>
            /\ (pc = "idle" /\ pc' # "idle") => run_pc = "consume"
            /\ last_done'.outcome # "none" =>
                   (last_done'.dropped /\ outbound' = outbound /\ out_put' = out_put) ]_vars

-----------------------------------------------------------------------------
(* agent/subagent.py: background runs and their announce *)

SubagentMaxIterations == 15

\* a registry that holds the spawn tool as well
Mut_subagent_tools ==
    {"read_file", "write_file", "list_dir", "exec", "web_search", "web_fetch",
     "spawn"}

\* the registry _run_subagent builds: no message tool, no spawn tool
subagent_tools ==
    {"read_file", "write_file", "list_dir", "exec", "web_search", "web_fetch"}

SubagentFallback == "Task completed but no final response was generated."

\* what a provider.chat call of a run gives: tool calls, a final text, a
\* response without content, or an exception
SubagentResponses == {"tools", "text", "none", "raise"}

\* the (status, result) _run_subagent hands to _announce_result
Mut_AnnounceOf(response) == [status |-> "ok", result |-> response]
AnnounceOf(response) ==
    CASE response = "raise" -> [status |-> "error", result |-> "Error"]
      [] response = "text" -> [status |-> "ok", result |-> "text"]
      [] OTHER -> [status |-> "ok", result |-> SubagentFallback]

\* _announce_result: the system message handed to publish_inbound
AnnounceMessage(id, origin, response) ==
    [kind |-> "msg", id |-> id, channel |-> "system", sender_id |-> "subagent",
     chat_id |-> SessionKey(origin.channel, origin.chat_id),
     status |-> AnnounceOf(response).status,
     result |-> AnnounceOf(response).result]

Origins == { [channel |-> key[1], chat_id |-> SubSeq(key, 3, Len(key))] : key \in Sessions }

\* spawn(): the run is created as a task of its own
SubagentSpawn ==
    /\ Len(subagents) < MaxSubagents
    /\ \E origin \in Origins :
        subagents' = Append(subagents,
            [origin |-> origin, pc |-> "model", iteration |-> 0, pending |-> 0,
             ended |-> "no", dropped |-> FALSE])
    /\ last_sub_tool' = NoSubTool
    /\ UNCHANGED <<cache_vars, reg_vars, conc_vars, late_vars, det_vars, bus_vars, sub_vars, loop_vars>>

\* one provider.chat call of a run and what follows it up to the next await
SubagentModelCall ==
    /\ \E i \in DOMAIN subagents : \E response \in SubagentResponses :
        /\ subagents[i].pc = "model"
        /\ IF response = "tools"
           THEN /\ \E n \in 1..MaxToolCalls :
                    subagents' = [subagents EXCEPT ![i].pc = "tools",
                                                   ![i].iteration = @ + 1,
                                                   ![i].pending = n]
                /\ UNCHANGED bus_vars
           ELSE /\ publish_inbound(AnnounceMessage(i, subagents[i].origin, response))
                /\ subagents' = [subagents EXCEPT ![i].pc = "done",
                                                  ![i].iteration = @ + 1,
                                                  ![i].ended = response,
                                                  ![i].dropped = in_shutdown]
                /\ UNCHANGED <<outbound, in_shutdown, out_shutdown, out_put,
                               out_late, in_got, out_got, stop_calls>>
    /\ last_sub_tool' = NoSubTool
    /\ UNCHANGED <<cache_vars, reg_vars, conc_vars, late_vars, det_vars, sub_vars, loop_vars>>

\* the tool calls a run's model asks for: a registered tool whose validation
\* and body go either way, and the two tools a run is not given (what their
\* validation or body would do plays no part)
SubagentToolCalls ==
    { [name |-> "read_file", valid |-> v, body |-> b] :
          v \in BOOLEAN, b \in {"ok", "raise"} }
        \cup { [name |-> n, valid |-> TRUE, body |-> "ok"] : n \in {"spawn", "message"} }

\* one tools.execute call of a run; after the last call of the last round the
\* budget is spent and the run announces the fallback
SubagentToolCall ==
    /\ \E i \in DOMAIN subagents : \E c \in SubagentToolCalls :
        LET name == c.name
            status == RegistryExecute(subagent_tools, c.name, c.valid, c.body)
            more == subagents[i].pending > 1
            budget == subagents[i].iteration < SubagentMaxIterations
        IN  /\ subagents[i].pc = "tools"
            /\ last_sub_tool' = [name |-> name, status |-> status]
            /\ IF more \/ budget
               THEN /\ subagents' = [subagents EXCEPT
                                        ![i].pc = IF more THEN "tools" ELSE "model",
                                        ![i].pending = @ - 1]
                    /\ UNCHANGED bus_vars
               ELSE /\ publish_inbound(AnnounceMessage(i, subagents[i].origin, "none"))
                    /\ subagents' = [subagents EXCEPT ![i].pc = "done",
                                                      ![i].pending = @ - 1,
                                                      ![i].ended = "budget",
                                                      ![i].dropped = in_shutdown]
                    /\ UNCHANGED <<outbound, in_shutdown, out_shutdown, out_put,
                                   out_late, in_got, out_got, stop_calls>>
    /\ UNCHANGED <<cache_vars, reg_vars, conc_vars, late_vars, det_vars, sub_vars, loop_vars>>

SubagentNext ==
    \/ SubagentSpawn
    \/ SubagentModelCall
    \/ SubagentToolCall
    \/ BusStop

SubagentInit ==
    /\ LoopIdle
    /\ DetIdle
    /\ BusInit
    /\ SubInit

SpecSubagent == SubagentInit /\ [][SubagentNext]_vars

\* the announces of run i a log holds
AnnouncesOf(log, i) ==
    Cardinality({ k \in DOMAIN log : IsMsg(log[k]) /\ log[k].id = i })

\* C5 as stated: every run that ended has exactly one announce enqueued on the
\* inbound queue, also when stop() is called meanwhile
C5_ExactlyOneEnqueued ==
    \A i \in DOMAIN subagents :
        AnnouncesOf(in_put, i) = (IF subagents[i].pc = "done" THEN 1 ELSE 0)

\* C5 (amended): every spawned subagent run ends with exactly one call of
\* publish_inbound carrying its announce, whether the run produced a final
\* answer, exhausted its iteration budget or raised; never two. The announce
\* is enqueued on the inbound queue unless bus.stop() was called before the
\* run ended: then the bus drops it and no announce of the run is enqueued.
C5_ExactlyOneAnnounceCall ==
    \A i \in DOMAIN subagents :
        LET s == subagents[i]
            log == IF s.dropped THEN in_late ELSE in_put
        IN  /\ AnnouncesOf(in_put, i) + AnnouncesOf(in_late, i) =
                    (IF s.pc = "done" THEN 1 ELSE 0)
            /\ s.iteration <= SubagentMaxIterations
            /\ s.pc = "done" =>
                /\ AnnouncesOf(log, i) = 1
                /\ \A k \in DOMAIN log :
                    (IsMsg(log[k]) /\ log[k].id = i) =>
                        /\ log[k].channel = "system"
                        /\ (log[k].status = "error") <=> (s.ended = "raise")

C5_Witness ==
    \E i \in DOMAIN subagents :
        /\ subagents[i].pc = "done"
        /\ subagents[i].ended = "raise"
        /\ AnnouncesOf(in_late, i) = 1
        /\ AnnouncesOf(in_put, i) = 0

\* C23: a subagent run makes at most 15 model calls; its registry holds
\* neither the message tool nor the spawn tool, so a call of either is answered
\* tool_not_found, and the runs publish nothing on the outbound queue
C23_SubagentIsConfined ==
    /\ \A i \in DOMAIN subagents : subagents[i].iteration <= 15
    /\ subagent_tools \cap {"message", "spawn"} = {}
    /\ last_sub_tool.name \in {"message", "spawn"} =>
           last_sub_tool.status = "tool_not_found"
    /\ Msgs(out_put) = <<>> /\ out_late = <<>>

\* a run that called spawn in its fifteenth round
C23_Witness ==
    /\ last_sub_tool.name = "spawn"
    /\ last_sub_tool.status = "tool_not_found"
    /\ \E i \in DOMAIN subagents :
           subagents[i].iteration = 15 /\ subagents[i].pc = "done"
               /\ subagents[i].ended = "budget"

-----------------------------------------------------------------------------
(* The detector on its own: any configuration, any sequence of checks *)

DetectorCalls ==
    { Call("read_file", [path |-> Str(<<"a">>)]),
      Call("read_file", [path |-> Str(<<"b">>)]),
      Call("write_file", [path |-> Str(<<"a">>), content |-> Str(<<"x">>)]),
      Call("exec", [command |-> Cmd(<<W("cat"), W("./f.txt")>>)]),
      Call("exec", [command |-> Cmd(<<W("sudo"), W("rm"), W("x")>>)]),
      Call("exec", [command |-> Int(42)]) }

DetInit ==
    /\ threshold \in 1..MaxThreshold
    /\ window_size \in 1..MaxWindow
    /\ det = [history |-> <<>>, just_wrote |-> FALSE]
    /\ det_log = <<>>

DetCheck ==
    /\ Len(det_log) < MaxChecks
    /\ \E c \in DetectorCalls :
        LET r == Check(det, threshold, window_size, c.name, c.args)
        IN  /\ det' = r.det
            /\ det_log' = Append(det_log, [call |-> c, result |-> r.result,
                                        write |-> IsWrite(c.name, c.args)])
    /\ UNCHANGED <<threshold, window_size>>

DetNext ==
    DetCheck /\ UNCHANGED <<bus_vars, sub_vars, loop_vars, spawn_vars, cache_vars,
                           reg_vars, conc_vars, late_vars>>

DetAloneInit ==
    /\ DetInit
    /\ BusInit
    /\ SubInit
    /\ LoopIdle

SpecDetector == DetAloneInit /\ [][DetNext]_vars

\* C1: on a fresh detector with threshold T <= window_size, T consecutive
\* checks of one read-only (tool, args) pair return None on each of the first
\* T-1 calls and a refusal on the T-th.
C1_RefusedOnTth ==
    \A k \in 1..Len(det_log) :
        ( /\ threshold <= window_size
          /\ k <= threshold
          /\ IsReadOnly(det_log[1].call.name, det_log[1].call.args)
          /\ \A i \in 1..k : det_log[i].call = det_log[1].call )
        => (det_log[k].result = (IF k < threshold THEN NoneResult ELSE Refusal))

C1_Witness ==
    /\ threshold = 3
    /\ Len(det_log) = 3
    /\ IsReadOnly(det_log[1].call.name, det_log[1].call.args)
    /\ \A i \in 1..3 : det_log[i].call = det_log[1].call
    /\ det_log[3].result = Refusal

\* the checks of the log that entered the window: neither writes nor failed
Recorded(k) ==
    /\ ~det_log[k].write
    /\ det_log[k].result # TypeErrorRaised

WriteAt(k) == det_log[k].write

\* the recorded checks after the last write before k, up to k
SinceWrite(k) ==
    { i \in 1..k : Recorded(i) /\ \A w \in i..k : ~WriteAt(w) }

\* C14: a check classified as a write returns None unconditionally and leaves
\* the window empty, so signatures recorded before a write never count toward
\* a refusal after it: every refusal rests on at least T recorded checks of
\* the refused signature made since the last write. (Stated of the check made
\* last; every earlier check was the last one in an earlier state.)
C14_WriteResetsWindow ==
    LET k == Len(det_log)
    IN  k > 0 =>
        /\ WriteAt(k) => (det_log[k].result = NoneResult /\ det.history = <<>>)
        /\ det_log[k].result = Refusal =>
            /\ Cardinality(SinceWrite(k)) >= threshold
            /\ \A i \in SinceWrite(k) :
                Cardinality({ j \in SinceWrite(k) : j >= i }) <= threshold =>
                    det_log[i].call = det_log[k].call

C14_Witness ==
    /\ threshold = 2
    /\ window_size = 4
    /\ Len(det_log) = 4
    /\ IsReadOnly(det_log[1].call.name, det_log[1].call.args)
    /\ det_log[2].call = det_log[1].call
    /\ det_log[2].result = Refusal
    /\ WriteAt(3)
    /\ det_log[4].call = det_log[1].call
    /\ det_log[4].result = NoneResult

\* C15: immediately after a write-classified check, with threshold T and
\* window_size > T, the next T checks of one identical read-only action all
\* return None and the (T+1)-th returns a refusal. (Stated of the check made
\* last, for every write before it.)
C15_GraceThenRefusal ==
    \A w \in 1..Len(det_log) :
        LET j == Len(det_log) - w
        IN  ( /\ window_size > threshold
              /\ WriteAt(w)
              /\ j \in 1..(threshold + 1)
              /\ IsReadOnly(det_log[w + 1].call.name, det_log[w + 1].call.args)
              /\ \A i \in (w + 1)..(w + j) : det_log[i].call = det_log[w + 1].call )
            => (det_log[w + j].result = (IF j <= threshold THEN NoneResult ELSE Refusal))

C15_Witness ==
    /\ threshold = 3
    /\ window_size = 4
    /\ Len(det_log) = 5
    /\ WriteAt(1)
    /\ IsReadOnly(det_log[2].call.name, det_log[2].call.args)
    /\ \A i \in 2..5 : det_log[i].call = det_log[2].call
    /\ \A i \in 2..4 : det_log[i].result = NoneResult
    /\ det_log[5].result = Refusal

SigAt(k) == Signature(det_log[k].call.name, det_log[k].call.args)

\* every check of the log was recorded and no two have the same signature
DistinctReads ==
    /\ \A k \in DOMAIN det_log : Recorded(k)
    /\ \A i, j \in DOMAIN det_log : i # j => SigAt(i) # SigAt(j)

\* the recorded checks up to k that form an unbroken run of k's signature
RunEndingAt(k) ==
    { i \in 1..k : \A j \in i..k :
        det_log[j].result = TypeErrorRaised \/ (Recorded(j) /\ SigAt(j) = SigAt(k)) }

\* the window is bounded, and a refusal stands on the last `threshold`
\* entries: the window ends with them, and they were put there by an unbroken
\* run of recorded checks of the refused signature
RefusalOnlyOnFullRun ==
    LET k == Len(det_log)
    IN  /\ Len(det.history) <= window_size
        /\ (k > 0 /\ det_log[k].result = Refusal) =>
            /\ RecentAllEqual(det.history, SigAt(k), threshold)
            /\ Cardinality({ i \in RunEndingAt(k) : Recorded(i) }) >= threshold

\* C33 as stated: the window never holds more than window_size signatures; a
\* refusal is returned only if the last `threshold` entries after appending
\* all equal the current signature; pairwise-distinct reads are never
\* refused, whatever the configuration
C33_DistinctNeverRefused ==
    /\ RefusalOnlyOnFullRun
    /\ DistinctReads => \A k \in DOMAIN det_log : det_log[k].result # Refusal

\* C33 (amended): the window never holds more than window_size signatures; a
\* refusal is returned only if the last `threshold` entries after appending
\* all equal the current signature, so a signature that recurs
\* non-consecutively is refused only once it fills the last `threshold`
\* positions; with a threshold of at least 2, pairwise-distinct reads are
\* never refused, also after the window has wrapped. (With a threshold of 1
\* the last entry is the current signature itself and every read is refused.)
C33_DistinctNeverRefusedFromTwo ==
    /\ RefusalOnlyOnFullRun
    /\ (threshold >= 2 /\ DistinctReads) =>
            \A k \in DOMAIN det_log : det_log[k].result # Refusal

\* three pairwise-distinct reads through a window of two, none refused; the
\* first has left the window
C33_Witness ==
    /\ threshold = 2
    /\ window_size = 2
    /\ Len(det_log) = 3
    /\ DistinctReads
    /\ det.history = <<SigAt(2), SigAt(3)>>
    /\ \A k \in 1..3 : det_log[k].result = NoneResult

-----------------------------------------------------------------------------
(* agent/loop.py: the oscillation-detector cache over many turns *)

CacheSessions ==
    { SessionKey("cli", <<"1">>), SessionKey("cli", <<"2">>),
      SessionKey("cli", <<"3">>), SessionKey("tg", <<"1">>) }

\* the detector after the turn's tool call, if the turn makes one
AfterTurn(d, checked) ==
    IF checked
    THEN Check(d, DefaultThreshold, DefaultWindow, "read_file", ReadA).det
    ELSE d

\* whether the turn's tool call, if it makes one, is refused
TurnRefused(d, checked) ==
    checked /\ Check(d, DefaultThreshold, DefaultWindow, "read_file", ReadA).result = Refusal

\* a user turn of _process_message, as far as the detector cache goes: the
\* lookup at its start, then at most one safety.check() on the detector found
CacheUserTurn ==
    /\ turns < MaxCacheTurns
    /\ \E key \in CacheSessions, checked \in BOOLEAN :
        LET touched == TouchDetector(osc, key, cap)
        IN  /\ osc' = SetDetector(touched, key,
                                  AfterTurn(DetectorOf(touched, key), checked))
            /\ used' = Append(used, [key |-> key, checked |-> checked,
                                      refused |-> TurnRefused(DetectorOf(touched, key),
                                                              checked)])
    /\ turns' = turns + 1
    /\ UNCHANGED <<cap, running, run_pc, pc, turn, force_attempts, sessions,
                   catalog, last_tool, last_done, last_route>>
    /\ UNCHANGED <<spawn_vars, reg_vars, conc_vars, late_vars, det_vars, bus_vars, sub_vars>>

\* a system turn: _process_message hands it to _process_system_message before
\* the cache is looked at
CacheSystemTurn ==
    /\ turns < MaxCacheTurns
    /\ turns' = turns + 1
    /\ UNCHANGED <<cache_vars, osc, running, run_pc, pc, turn, force_attempts,
                   sessions, catalog, last_tool, last_done, last_route>>
    /\ UNCHANGED <<spawn_vars, reg_vars, conc_vars, late_vars, det_vars, bus_vars, sub_vars>>

CacheNext ==
    \/ CacheUserTurn
    \/ CacheSystemTurn

CacheInit ==
    /\ \E limit \in 1..MaxCap : LoopInitAt({}, limit)
    /\ DetIdle
    /\ BusInit
    /\ SubInit

SpecCache == CacheInit /\ [][CacheNext]_vars

KeysInOrder(cache) == [i \in DOMAIN cache |-> cache[i].key]

\* the distinct sessions of a log of user turns, least recently used first
RECURSIVE Recency(_)
Recency(log) ==
    IF log = <<>> THEN <<>>
    ELSE LET key == log[Len(log)].key
             Other(k) == k # key
         IN  Append(SelectSeq(Recency(SubSeq(log, 1, Len(log) - 1)), Other), key)

LastN(s, n) == IF Len(s) <= n THEN s ELSE SubSeq(s, Len(s) - n + 1, Len(s))

\* the cache never holds more than cap detectors, and holds exactly the cap
\* most recently used sessions, least recently used first
CacheIsMostRecent ==
    /\ Len(osc) <= cap
    /\ KeysInOrder(osc) = LastN(Recency(used), cap)

\* a user turn creates a detector exactly when its session is not cached, and
\* otherwise goes on with the cached one; no turn touches another session's
\* detector, and a system turn leaves the cache alone
CacheTurnStep ==
    IF used' = used THEN osc' = osc
    ELSE LET last == used'[Len(used')]
             before == IF last.key \in CachedKeys(osc)
                       THEN DetectorOf(osc, last.key) ELSE FreshDetector
         IN  /\ last.key \in CachedKeys(osc')
             /\ DetectorOf(osc', last.key) = AfterTurn(before, last.checked)
             /\ \A k \in CachedKeys(osc') \ {last.key} :
                    /\ k \in CachedKeys(osc)
                    /\ DetectorOf(osc', k) = DetectorOf(osc, k)
             /\ last.key \in CachedKeys(osc) => CachedKeys(osc') = CachedKeys(osc)
             /\ (last.key \notin CachedKeys(osc) /\ Len(osc) >= cap) =>
                    CachedKeys(osc') =
                        (CachedKeys(osc) \ {Recency(used)[Len(Recency(used)) - cap + 1]})
                            \cup {last.key}

\* C16: the number of live oscillation detectors never exceeds the cap; a
\* detector is created only on a user turn of a session that is not cached at
\* that moment; and at the cap the session evicted is the least recently used
\* one, each user turn making its own session the most recently used
C16_CacheIsLru == []CacheIsMostRecent /\ [][CacheTurnStep]_vars

\* a full cache of two, whose older session was used again before a third
\* session arrived: the session evicted is the second, not the first
C16_Witness ==
    /\ cap = 2
    /\ Len(used) = 4
    /\ used[3].key = used[1].key
    /\ used[2].key # used[1].key
    /\ used[4].key \notin {used[1].key, used[2].key}
    /\ used[1].checked
    /\ KeysInOrder(osc) = <<used[1].key, used[4].key>>
    /\ DetectorOf(osc, used[1].key) # FreshDetector

\* the user turn at position i of the log found no detector of its session:
\* the session was new, or evicted since its last turn
CreatedAt(i) ==
    LET cached == LastN(Recency(SubSeq(used, 1, i - 1)), cap)
    IN  \A j \in DOMAIN cached : cached[j] # used[i].key

\* the reads of a session up to turn k that its detector of turn k has seen
ReadsSeen(key, k) ==
    { j \in 1..k :
        /\ used[j].key = key
        /\ used[j].checked
        /\ \A i \in (j + 1)..k : ~(used[i].key = key /\ CreatedAt(i)) }

\* C40: detector state is per session and outlives the turn: the window of a
\* cached session holds exactly the reads of that session's own turns since
\* its detector was created, whatever other sessions did in between, so of
\* identical reads spread over the turns of one session with no write in
\* between the third (the default threshold) and every later one is refused,
\* counted from the last turn that found the session evicted
C40_WindowPerSession ==
    /\ \A k \in DOMAIN used :
        used[k].checked =>
            (used[k].refused <=>
                Cardinality(ReadsSeen(used[k].key, k)) >= DefaultThreshold)
    /\ \A key \in CachedKeys(osc) :
        LET seen == Cardinality(ReadsSeen(key, Len(used)))
        IN  Len(DetectorOf(osc, key).history) =
                (IF seen <= DefaultWindow THEN seen ELSE DefaultWindow)

\* three reads of one session in three of its turns, a turn of another
\* session in between: the third is refused
C40_Witness ==
    /\ Len(used) = 4
    /\ used[1].key = used[3].key /\ used[3].key = used[4].key
    /\ used[2].key # used[1].key
    /\ \A k \in 1..4 : used[k].checked
    /\ used[4].refused
    /\ ~used[3].refused

\* the same three reads with the session evicted before the third: none is
\* refused
C40_EvictedWitness ==
    /\ cap = 1
    /\ Len(used) = 4
    /\ used[1].key = used[2].key /\ used[2].key = used[4].key
    /\ used[3].key # used[1].key
    /\ \A k \in 1..4 : used[k].checked
    /\ \A k \in 1..4 : ~used[k].refused

-----------------------------------------------------------------------------
(* agent/tools/registry.py: a ToolRegistry on its own *)

ToolNames == {"exec", "update_plan"}

\* ToolRegistry.register
RegistryRegister ==
    /\ \E name \in ToolNames : registered' = registered \cup {name}
    /\ last_exec' = NoExec
    /\ UNCHANGED executes
    /\ UNCHANGED <<det_vars, bus_vars, sub_vars, loop_vars, spawn_vars, cache_vars,
                   conc_vars, late_vars>>

\* ToolRegistry.unregister
RegistryUnregister ==
    /\ \E name \in ToolNames : registered' = registered \ {name}
    /\ last_exec' = NoExec
    /\ UNCHANGED executes
    /\ UNCHANGED <<det_vars, bus_vars, sub_vars, loop_vars, spawn_vars, cache_vars,
                   conc_vars, late_vars>>

\* one awaited ToolRegistry.execute(name, params)
RegistryCall ==
    /\ executes < MaxExecutes
    /\ \E name \in ToolNames \cup {"missing"} :
       \E validation \in {"none", "errors", "raise"} :
       \E body \in {"ok", "failed", "raise", "cancel"} :
        LET r == ToolRegistry_execute(registered, name, validation, body)
        IN  last_exec' = [name |-> name, known |-> name \in registered,
                          validation |-> validation, body |-> body,
                          outcome |-> r.outcome, status |-> r.status,
                          invoked |-> r.invoked]
    /\ executes' = executes + 1
    /\ UNCHANGED registered
    /\ UNCHANGED <<det_vars, bus_vars, sub_vars, loop_vars, spawn_vars, cache_vars,
                   conc_vars, late_vars>>

RegistryNext ==
    \/ RegistryRegister
    \/ RegistryUnregister
    \/ RegistryCall

RegistryInit ==
    /\ LoopIdle
    /\ DetIdle
    /\ BusInit
    /\ SubInit

SpecRegistry == RegistryInit /\ [][RegistryNext]_vars

Called == last_exec.outcome # "none"

\* C17 as stated: execute never raises and returns one of four statuses:
\* tool_not_found for a name that is not registered; else validation_error when
\* validate_params yields an error, the body not being invoked; else the body
\* is invoked, and the status is execution_error if it raises, success if not
C17_FourStatusesNeverRaises ==
    Called =>
        /\ last_exec.outcome = "returned"
        /\ last_exec.status \in
               {"tool_not_found", "validation_error", "execution_error", "success"}
        /\ IF ~last_exec.known
           THEN last_exec.status = "tool_not_found" /\ ~last_exec.invoked
           ELSE IF last_exec.validation = "errors"
           THEN last_exec.status = "validation_error" /\ ~last_exec.invoked
           ELSE /\ last_exec.invoked
                /\ last_exec.status =
                       IF last_exec.body \in {"raise", "cancel"}
                       THEN "execution_error" ELSE "success"

\* C17, amended: the checks are made in the stated order, but execution_error
\* is also the status when validate_params itself raises, the body then not
\* being invoked; and only an Exception is turned into a status: a
\* BaseException raised in the body (a cancellation) reaches the caller
C17_ChecksInOrder ==
    Called =>
        IF ~last_exec.known
        THEN /\ last_exec.outcome = "returned"
             /\ last_exec.status = "tool_not_found"
             /\ ~last_exec.invoked
        ELSE IF last_exec.validation = "errors"
        THEN /\ last_exec.outcome = "returned"
             /\ last_exec.status = "validation_error"
             /\ ~last_exec.invoked
        ELSE IF last_exec.validation = "raise"
        THEN /\ last_exec.outcome = "returned"
             /\ last_exec.status = "execution_error"
             /\ ~last_exec.invoked
        ELSE /\ last_exec.invoked
             /\ IF last_exec.body = "cancel"
                THEN last_exec.outcome = "raised"
                ELSE /\ last_exec.outcome = "returned"
                     /\ last_exec.status =
                            IF last_exec.body = "raise"
                            THEN "execution_error" ELSE "success"

\* a registered tool whose validate_params raised
C17_Witness ==
    /\ Called
    /\ last_exec.known
    /\ last_exec.validation = "raise"
    /\ last_exec.status = "execution_error"
    /\ ~last_exec.invoked

-----------------------------------------------------------------------------
(* agent/loop.py: run() and process_direct() as two coroutines of one event
   loop, each suspended wherever _process_message awaits *)

TurnOrigins ==
    { [channel |-> "telegram", chat_id |-> "1"],
      [channel |-> "telegram", chat_id |-> "2"],
      [channel |-> "cli", chat_id |-> "direct"] }

\* _process_message up to its first await: run() has taken msg off the bus, or
\* process_direct has built it; the tools are given the turn's channel and chat
TaskBegins(t) ==
    /\ tasks[t].pc = "idle"
    /\ \E origin \in TurnOrigins :
        /\ tasks' = [tasks EXCEPT ![t] = [pc |-> "model", origin |-> origin,
                                          iteration |-> 1]]
        /\ tool_context' = origin
    /\ UNCHANGED <<det_vars, bus_vars, sub_vars, loop_vars, spawn_vars, cache_vars,
                   reg_vars, late_vars>>

\* await provider.chat returns with tool calls
TaskModelCalls(t) ==
    /\ tasks[t].pc = "model"
    /\ tasks' = [tasks EXCEPT ![t].pc = "tools"]
    /\ UNCHANGED tool_context
    /\ UNCHANGED <<det_vars, bus_vars, sub_vars, loop_vars, spawn_vars, cache_vars,
                   reg_vars, late_vars>>

\* the awaited tool calls of the round return: the next round, if there is one
TaskToolsReturn(t) ==
    /\ tasks[t].pc = "tools"
    /\ tasks[t].iteration < max_iterations
    /\ tasks' = [tasks EXCEPT ![t].pc = "model",
                              ![t].iteration = tasks[t].iteration + 1]
    /\ UNCHANGED tool_context
    /\ UNCHANGED <<det_vars, bus_vars, sub_vars, loop_vars, spawn_vars, cache_vars,
                   reg_vars, late_vars>>

\* the turn ends: the model answered, or the rounds are used up
TaskEnds(t) ==
    /\ \/ tasks[t].pc = "model"
       \/ tasks[t].pc = "tools" /\ tasks[t].iteration >= max_iterations
    /\ tasks' = [tasks EXCEPT ![t] = IdleTask]
    /\ UNCHANGED tool_context
    /\ UNCHANGED <<det_vars, bus_vars, sub_vars, loop_vars, spawn_vars, cache_vars,
                   reg_vars, late_vars>>

RunTaskStep ==
    \/ TaskBegins("run")
    \/ TaskModelCalls("run")
    \/ TaskToolsReturn("run")
    \/ TaskEnds("run")

DirectTaskStep ==
    \/ TaskBegins("direct")
    \/ TaskModelCalls("direct")
    \/ TaskToolsReturn("direct")
    \/ TaskEnds("direct")

TasksNext ==
    \/ RunTaskStep
    \/ DirectTaskStep

TasksInit ==
    /\ LoopIdle
    /\ DetIdle
    /\ BusInit
    /\ SubInit

SpecTasks == TasksInit /\ [][TasksNext]_vars

InProgress == { t \in Tasks : tasks[t].pc # "idle" }

\* C18: at most one turn is in progress at any time, so the routing context
\* the tools were given at the start of a turn is still that turn's own while
\* the turn is suspended at a model or tool call
C18_OneTurnAtATime ==
    /\ Cardinality(InProgress) <= 1
    /\ \A t \in InProgress : tool_context = tasks[t].origin

-----------------------------------------------------------------------------
(* agent/loop.py: the managed plan of a turn and the system-prompt suffix *)

PyList(items) == [t |-> "list", v |-> items]

\* str(x)
PyStr(x) ==
    CASE x.t = "str" -> x.v
      [] x.t = "int" -> <<<<"0", "1", "2", "3", "4", "5", "6", "7", "8", "9">>[x.v[1] + 1]>>
      [] x.t = "bool" -> IF x.v = <<"true">> THEN <<"T", "r", "u", "e">>
                         ELSE <<"F", "a", "l", "s", "e">>
      [] OTHER -> <<"N", "o", "n", "e">>

Mut_normalize_strategy(raw_strategy) ==
    IF raw_strategy.t = "list"
    THEN [i \in DOMAIN raw_strategy.v |-> PyStr(raw_strategy.v[i])]
    ELSE <<PyStr(raw_strategy)>>

_normalize_strategy(raw_strategy) ==
    IF raw_strategy.t = "list"
    THEN [i \in DOMAIN raw_strategy.v |-> PyStr(raw_strategy.v[i])]
    ELSE IF raw_strategy.t = "none" THEN <<>>
    ELSE <<PyStr(raw_strategy)>>

\* the text _format_plan returns, line by line; analysis is a str or None
_format_plan(analysis, strategy) ==
    LET goal_text == IF Truthy(analysis) THEN Strip(analysis.v) ELSE <<"N/A">>
        steps == IF strategy # <<>> THEN strategy ELSE << <<"No steps defined.">> >>
    IN  << <<"## OPERATIONAL PLAN (MANAGED VIA update_plan)">>,
           <<"GOAL: ">> \o goal_text,
           <<"STEPS:">> >>
        \o [i \in DOMAIN steps |-> <<"- ">> \o steps[i]]

\* analysis_value if isinstance(analysis_value, str) else None
AnalysisText(p) == IF p.analysis.t = "str" THEN p.analysis ELSE NoneVal

\* the plan once the interceptor has merged the arguments of the call in
MergePlan(p, args) ==
    LET new_analysis == Get(args, "analysis", NoneVal)
    IN  [strategy |-> _normalize_strategy(Get(args, "strategy", NoneVal)),
         analysis |-> IF new_analysis.t = "str" /\ Strip(new_analysis.v) # <<>>
                      THEN Str(Strip(new_analysis.v))
                      ELSE p.analysis]

\* the rendering of a plan left unmerged
Mut_ActivePlanAfter(p, args) == _format_plan(AnalysisText(p), p.strategy)

\* active_plan as the interceptor recomputes it
ActivePlanAfter(p, args) ==
    _format_plan(AnalysisText(MergePlan(p, args)), MergePlan(p, args).strategy)

\* ContextBuilder.build_messages: the system message is the base prompt, followed
\* by the suffix when there is one
build_messages(system_suffix) ==
    IF system_suffix = NoSuffix THEN <<BasePrompt>> ELSE <<BasePrompt, system_suffix>>

\* ContextBuilder.update_system_suffix: the base prompt is kept, the suffix is
\* replaced
update_system_suffix(content, suffix) == <<BasePrompt, suffix>>

AnalysisValues ==
    { NoneVal, Str(<<"a">>), Str(<<" ", "b", " ">>), Str(<<" ">>), Int(7) }

StrategyValues ==
    { NoneVal, PyList(<<>>), PyList(<<Str(<<"x">>)>>),
      PyList(<<Str(<<"a">>), Int(1), Bool(FALSE)>>), Int(2), Str(<<"y">>) }

PlanArgs ==
    { [analysis |-> a, strategy |-> st] : a \in AnalysisValues, st \in StrategyValues }
        \cup { [reason |-> Str(<<"r">>)] }

\* the drafting phase and the transcript built after it: no plan when the turn
\* is not routed to drafting or the draft failed, else the plan parsed from
\* the draft
PlanInit ==
    /\ \E drafted \in BOOLEAN : \E d \in PlanArgs :
        LET p == [analysis |-> Get(d, "analysis", NoneVal),
                  strategy |-> _normalize_strategy(Get(d, "strategy", NoneVal))]
            active_plan == IF drafted THEN _format_plan(AnalysisText(p), p.strategy)
                           ELSE NoSuffix
        IN  /\ plan = IF drafted THEN p ELSE [analysis |-> NoneVal, strategy |-> <<>>]
            /\ system_content = build_messages(active_plan)
            /\ previous = active_plan
    /\ plan_updates = 0
    /\ sent = <<>>
    /\ plan_args = NoArgs
    /\ running = FALSE
    /\ run_pc = "off"
    /\ pc = "idle"
    /\ turn = IdleTurn
    /\ osc = <<>>
    /\ force_attempts = [k \in {} |-> 0]
    /\ sessions = [k \in {} |-> <<>>]
    /\ catalog = {}
    /\ turns = 0
    /\ last_tool = NoTool
    /\ last_done = NoDone
    /\ last_route = NoRoute
    /\ subagents = <<>>
    /\ last_sub_tool = NoSubTool
    /\ cap = MAX_OSCILLATION_DETECTORS
    /\ used = <<>>
    /\ registered = {}
    /\ executes = 0
    /\ last_exec = NoExec
    /\ tasks = [t \in Tasks |-> IdleTask]
    /\ tool_context = NoContext
    /\ NoOriginYet
    /\ NoOthersYet
    /\ DetIdle
    /\ BusInit
    /\ SubInit

\* the plan-update interceptor handles one update_plan call
PlanUpdate ==
    /\ plan_updates < MaxPlanUpdates
    /\ \E args \in PlanArgs :
        /\ plan' = MergePlan(plan, args)
        /\ plan_args' = args
        /\ system_content' =
               update_system_suffix(system_content, ActivePlanAfter(plan, args))
    /\ previous' = IF Len(system_content) > 1 THEN system_content[2] ELSE NoSuffix
    /\ plan_updates' = plan_updates + 1
    /\ sent' = <<>>
    /\ UNCHANGED <<core_vars, late_but_plan>>

\* the next provider.chat call is given the transcript
PlanModelCall ==
    /\ sent = <<>>
    /\ sent' = system_content
    /\ UNCHANGED <<plan, system_content, previous, plan_updates, plan_args>>
    /\ UNCHANGED <<core_vars, late_but_plan>>

PlanNext ==
    \/ PlanUpdate
    \/ PlanModelCall

SpecPlan == PlanInit /\ [][PlanNext]_vars

\* C20: after update_plan calls, the system content given to the next model
\* call is the base prompt followed by exactly the rendering of the current
\* (analysis, strategy) pair, and holds nothing of the suffix that was replaced
C20_SuffixIsCurrentPlan ==
    (plan_updates > 0 /\ sent # <<>>) =>
        /\ sent = <<BasePrompt, _format_plan(AnalysisText(plan), plan.strategy)>>
        /\ previous # _format_plan(AnalysisText(plan), plan.strategy) =>
               \A i \in DOMAIN sent : sent[i] # previous

\* two updates with different plans, then a model call
C20_Witness ==
    /\ plan_updates = 2
    /\ sent # <<>>
    /\ previous # NoSuffix
    /\ previous # sent[2]
    /\ plan.analysis = Str(<<"b">>)
    /\ Len(plan.strategy) = 3

\* the steps of a rendered plan: its lines after "STEPS:"
StepLines(suffix) == SubSeq(suffix, 4, Len(suffix))

\* the goal line of the suffix the call replaced; "GOAL: N/A" when there was
\* no plan
GoalLineBefore == IF previous = NoSuffix THEN <<"GOAL: ", "N/A">> ELSE previous[2]

\* C26: the strategy of an update_plan call is coerced to a list of strings
\* before rendering: a list element by element, a non-list value to a list of
\* one, null to the empty list; ["a", 1, false] renders the steps "- a",
\* "- 1", "- False"; a non-blank analysis replaces the goal text and anything
\* else keeps the goal of the plan before
C26_StrategyCoerced ==
    plan_updates > 0 =>
        LET raw == Get(plan_args, "strategy", NoneVal)
            new_analysis == Get(plan_args, "analysis", NoneVal)
            suffix == _format_plan(AnalysisText(plan), plan.strategy)
        IN  /\ raw.t = "list" =>
                   /\ Len(plan.strategy) = Len(raw.v)
                   /\ \A i \in DOMAIN raw.v : plan.strategy[i] = PyStr(raw.v[i])
            /\ raw.t = "none" => plan.strategy = <<>>
            /\ raw.t \notin {"list", "none"} => plan.strategy = <<PyStr(raw)>>
            /\ raw = PyList(<<Str(<<"a">>), Int(1), Bool(FALSE)>>) =>
                   StepLines(suffix) = << <<"- ", "a">>, <<"- ", "1">>,
                                          <<"- ", "F", "a", "l", "s", "e">> >>
            /\ plan.strategy # <<>> =>
                   StepLines(suffix) = [i \in DOMAIN plan.strategy |-> <<"- ">> \o plan.strategy[i]]
            /\ IF new_analysis.t = "str" /\ Strip(new_analysis.v) # <<>>
               THEN suffix[2] = <<"GOAL: ">> \o Strip(new_analysis.v)
               ELSE suffix[2] = GoalLineBefore

\* update_plan was called with strategy ["a", 1, false] and a blank analysis
\* on a plan that had a goal
C26_Witness ==
    /\ plan_updates > 0
    /\ plan_args = [analysis |-> Str(<<" ">>),
                    strategy |-> PyList(<<Str(<<"a">>), Int(1), Bool(FALSE)>>)]
    /\ plan.strategy = << <<"a">>, <<"1">>, <<"F", "a", "l", "s", "e">> >>
    /\ previous # NoSuffix
    /\ previous[2] = <<"GOAL: ", "b">>
    /\ system_content[2][2] = <<"GOAL: ", "b">>

-----------------------------------------------------------------------------
(* agent/subagent.py, agent/loop.py: the origin of a background run, from
   spawn() through the announce to the outbound message of the system turn;
   channel and chat_id are strings given character by character *)

RECURSIVE TextsUpTo(_)
TextsUpTo(n) ==
    IF n = 0 THEN {<<>>}
    ELSE TextsUpTo(n - 1)
             \cup { Append(t, c) : t \in TextsUpTo(n - 1), c \in {"a", "b", ":"} }

\* f"{origin['channel']}:{origin['chat_id']}"
EncodeOrigin(origin) == origin.channel \o <<":">> \o origin.chat_id

RECURSIVE LastIndexOf(_, _, _)
\* text.rfind(piece), from position i down; 0 when absent
LastIndexOf(pieces, piece, i) ==
    IF i = 0 THEN 0
    ELSE IF pieces[i] = piece THEN i
    ELSE LastIndexOf(pieces, piece, i - 1)

\* split at the last colon
Mut_split_origin(chat_id) ==
    LET at == LastIndexOf(chat_id, ":", Len(chat_id))
    IN  IF at > 0
        THEN [channel |-> SubSeq(chat_id, 1, at - 1),
              chat_id |-> SubSeq(chat_id, at + 1, Len(chat_id))]
        ELSE [channel |-> <<"cli">>, chat_id |-> chat_id]

\* msg.chat_id.split(":", 1) when it holds a colon, the cli fallback when not
split_origin(chat_id) ==
    LET at == IndexOf(chat_id, ":", 1)
    IN  IF at > 0
        THEN [channel |-> SubSeq(chat_id, 1, at - 1),
              chat_id |-> SubSeq(chat_id, at + 1, Len(chat_id))]
        ELSE [channel |-> <<"cli">>, chat_id |-> chat_id]

\* spawn(task, label, origin_channel, origin_chat_id)
OriginSpawn ==
    /\ ~spawned_origin.set
    /\ \E channel \in TextsUpTo(MaxOriginLen), chat_id \in TextsUpTo(MaxOriginLen) :
        spawned_origin' = [channel |-> channel, chat_id |-> chat_id, set |-> TRUE]
    /\ UNCHANGED <<announce, routed>>
    /\ UNCHANGED <<core_vars, late_but_origin>>

\* _announce_result: the message published on the system channel
OriginAnnounce ==
    /\ spawned_origin.set
    /\ ~announce.set
    /\ announce' = [channel |-> <<"system">>,
                    chat_id |-> EncodeOrigin(spawned_origin), set |-> TRUE]
    /\ UNCHANGED <<spawned_origin, routed>>
    /\ UNCHANGED <<core_vars, late_but_origin>>

\* _process_system_message for the announce: the OutboundMessage it returns
OriginSystemTurn ==
    /\ announce.set
    /\ ~routed.set
    /\ routed' = [channel |-> split_origin(announce.chat_id).channel,
                  chat_id |-> split_origin(announce.chat_id).chat_id, set |-> TRUE]
    /\ UNCHANGED <<spawned_origin, announce>>
    /\ UNCHANGED <<core_vars, late_but_origin>>

OriginNext ==
    \/ OriginSpawn
    \/ OriginAnnounce
    \/ OriginSystemTurn

OriginInit ==
    /\ LoopIdle
    /\ DetIdle
    /\ BusInit
    /\ SubInit

SpecOrigin == OriginInit /\ [][OriginNext]_vars

HasColon(text) == \E i \in DOMAIN text : text[i] = ":"

\* C22 as stated: the outbound message of a subagent announce is addressed to
\* the (channel, chat_id) pair passed to spawn, for every origin pair
C22_RoundTripEveryOrigin ==
    routed.set => routed = spawned_origin

\* C22, amended: the outbound message is addressed to the pair passed to spawn
\* exactly when the origin channel holds no colon; the chat id may hold any
C22_RoundTripColonFreeChannel ==
    routed.set => ((routed = spawned_origin) <=> ~HasColon(spawned_origin.channel))

\* a chat id with a colon in it comes back whole
C22_Witness ==
    /\ routed.set
    /\ spawned_origin.channel = <<"a">>
    /\ spawned_origin.chat_id = <<"b", ":">>
    /\ routed = spawned_origin


(***************************************************************************)
(* ExecTool.execute from the creation of the subprocess on: the wait for   *)
(* the command under the configured timeout, terminate, the grace period,  *)
(* kill, and the second bounded wait.  Time passes in whole seconds while  *)
(* execute is suspended; the subprocess exits when it does, whether by     *)
(* itself or after a signal, and nothing forces it to.                     *)
(***************************************************************************)

MaxTimeout == 3
Timeouts == 1 .. MaxTimeout

\* the seconds execute waits after terminate, and again after kill
GracePeriod == 5

\* f"{STATUS_FAILED}\nError: Command timed out after {self.timeout} seconds"
TimedOutResult(seconds) == [kind |-> "timed_out", seconds |-> seconds]

\* the header and body built from the output and the return code
CompletedResult == [kind |-> "completed", seconds |-> 0]

\* f"{STATUS_FAILED}\nError executing command: {str(e)}"
ErrorResult == [kind |-> "error", seconds |-> 0]

\* process.terminate() and process.kill(): a process that has exited gets no
\* signal (ProcessLookupError, passed over)
SendSignal(proc, signals, signal) ==
    IF proc = "running" THEN Append(signals, signal) ELSE signals

\* the bound of the wait execute is suspended in
WaitLimit ==
    IF shell.pc = "communicate" THEN shell.timeout ELSE GracePeriod

ExecReturn(result) ==
    shell' = [shell EXCEPT !.pc = "returned", !.waited = 0, !.result = result]

\* create_subprocess_shell succeeds and execute awaits communicate()
ExecBegin ==
    /\ shell = NoShell
    /\ \E t \in Timeouts :
        shell' = [shell EXCEPT !.pc = "communicate", !.timeout = t,
                               !.proc = "running"]
    /\ UNCHANGED <<core_vars, late_but_exec>>

\* create_subprocess_shell raises: the outer except returns the failure text
ExecSpawnFails ==
    /\ shell = NoShell
    /\ \E t \in Timeouts :
        shell' = [shell EXCEPT !.pc = "returned", !.timeout = t,
                               !.result = ErrorResult]
    /\ UNCHANGED <<core_vars, late_but_exec>>

\* a second passes while execute is suspended in a bounded wait
ExecTick ==
    /\ shell.pc \in {"communicate", "grace", "killwait"}
    /\ shell.waited < WaitLimit
    /\ shell' = [shell EXCEPT !.waited = @ + 1]
    /\ UNCHANGED <<core_vars, late_but_exec>>

\* the subprocess exits
ProcessExits ==
    /\ shell.proc = "running"
    /\ shell.pc # "returned"
    /\ shell' = [shell EXCEPT !.proc = "exited"]
    /\ UNCHANGED <<core_vars, late_but_exec>>

\* communicate() returns within the timeout
CommunicateReturns ==
    /\ shell.pc = "communicate"
    /\ shell.proc = "exited"
    /\ ExecReturn(CompletedResult)
    /\ UNCHANGED <<core_vars, late_but_exec>>

\* wait_for(communicate(), timeout) raises TimeoutError: terminate, then wait
\* for the process with the grace period
CommunicateTimesOut ==
    /\ shell.pc = "communicate"
    /\ shell.waited = shell.timeout
    /\ shell' = [shell EXCEPT !.pc = "grace", !.waited = 0,
                     !.signals = SendSignal(shell.proc, @, "terminate")]
    /\ UNCHANGED <<core_vars, late_but_exec>>

\* process.wait() returns within the grace period
GraceWaitReturns ==
    /\ shell.pc = "grace"
    /\ shell.proc = "exited"
    /\ ExecReturn(TimedOutResult(shell.timeout))
    /\ UNCHANGED <<core_vars, late_but_exec>>

\* the grace period runs out: kill, and wait again unless the process was gone
GraceTimesOut ==
    /\ shell.pc = "grace"
    /\ shell.waited = GracePeriod
    /\ IF shell.proc = "exited"
       THEN ExecReturn(TimedOutResult(shell.timeout))
       ELSE shell' = [shell EXCEPT !.pc = "killwait", !.waited = 0,
                          !.signals = SendSignal(shell.proc, @, "kill")]
    /\ UNCHANGED <<core_vars, late_but_exec>>

\* process.wait() returns after kill
KillWaitReturns ==
    /\ shell.pc = "killwait"
    /\ shell.proc = "exited"
    /\ ExecReturn(TimedOutResult(shell.timeout))
    /\ UNCHANGED <<core_vars, late_but_exec>>

\* the wait after kill runs out too: the TimeoutError is passed over and
\* execute returns
KillWaitTimesOut ==
    /\ shell.pc = "killwait"
    /\ shell.waited = GracePeriod
    /\ ExecReturn(TimedOutResult(shell.timeout))
    /\ UNCHANGED <<core_vars, late_but_exec>>

ExecNext ==
    \/ ExecBegin
    \/ ExecSpawnFails
    \/ ExecTick
    \/ ProcessExits
    \/ CommunicateReturns
    \/ CommunicateTimesOut
    \/ GraceWaitReturns
    \/ GraceTimesOut
    \/ KillWaitReturns
    \/ KillWaitTimesOut

ExecInit ==
    /\ LoopIdle
    /\ DetIdle
    /\ BusInit
    /\ SubInit

SpecExec == ExecInit /\ [][ExecNext]_vars

\* execute has returned from a command that outlived the timeout
ExecTimedOut == shell.pc = "returned" /\ shell.result.kind \notin {"completed", "error"}

\* what the code does keep of C24: the result of a timed-out command is the
\* failure text with the configured seconds, terminate comes before kill, and
\* kill is sent only to a process still running when the grace period ran out
ExecTimeoutContract ==
    /\ []( /\ ExecTimedOut => shell.result = TimedOutResult(shell.timeout)
           /\ shell.signals \in {<<>>, <<"terminate">>, <<"terminate", "kill">>} )
    /\ [][ (Len(shell'.signals) > Len(shell.signals)
               /\ shell'.signals[Len(shell'.signals)] = "kill")
            => (shell.pc = "grace" /\ shell.waited = GracePeriod
                   /\ shell.proc = "running") ]_vars

\* C24: a command that outlives the timeout makes execute return the failure
\* result naming the configured seconds, after terminate first and kill only
\* when the process outlived the grace period, and when execute returns the
\* subprocess is no longer running
C24_TimeoutLeavesNoProcess ==
    ExecTimedOut =>
        /\ shell.result = TimedOutResult(shell.timeout)
        /\ shell.signals \in {<<>>, <<"terminate">>, <<"terminate", "kill">>}
        /\ shell.proc # "running"

\* execute has returned the timeout failure and the process it sent terminate
\* and kill to is still running
ExecLeftRunning ==
    /\ ExecTimedOut
    /\ shell.signals = <<"terminate", "kill">>
    /\ shell.proc = "running"


-----------------------------------------------------------------------------
(* agent/tools/base.py: Tool.validate_params and Tool._validate.  A value is
   tagged as before; a dict is the sequence of its items in insertion order.
   An error string is kept as its kind, the label it starts with and the
   dotted paths of the missing keys its text names. *)

PyDict(items) == [t |-> "dict", v |-> items]
Absent == [t |-> "absent", v |-> <<>>]
Item(key, value) == [k |-> key, val |-> value]

\* a dict literal whose absent entries are left out
DictOf(items) == PyDict(SelectSeq(items, LAMBDA it : it.val.t # "absent"))

\* key in d, d[key]
HasKey(d, key) == \E i \in DOMAIN d.v : d.v[i].k = key
ValueAt(d, key) == d.v[CHOOSE i \in DOMAIN d.v : d.v[i].k = key].val

\* a schema node without any keyword; "" and <<>> stand for a keyword that is
\* not given
Node ==
    [type |-> "", candidates |-> <<>>, enum |-> <<>>, minimum |-> <<>>,
     maximum |-> <<>>, minLength |-> <<>>, maxLength |-> <<>>,
     properties |-> <<>>, required |-> <<>>, items |-> <<>>,
     anyOf |-> <<>>, oneOf |-> <<>>]

Typed(type) == [Node EXCEPT !.type = type]

\* "type": [...]
Union(candidates) == [Node EXCEPT !.type = "list", !.candidates = candidates]

\* isinstance(val, _TYPE_MAP[schema_type]); a bool is an int
IsInstance(val, schema_type) ==
    CASE schema_type = "string" -> val.t = "str"
      [] schema_type = "integer" -> val.t \in {"int", "bool"}
      [] schema_type = "number" -> val.t \in {"int", "bool"}
      [] schema_type = "boolean" -> val.t = "bool"
      [] schema_type = "array" -> val.t = "list"
      [] schema_type = "object" -> val.t = "dict"
      [] schema_type = "null" -> val.t = "none"
      [] OTHER -> TRUE

TypeNames == {"string", "integer", "number", "boolean", "array", "object", "null"}

\* the number a Python int or bool compares as
NumVal(x) == IF x.t = "bool" THEN (IF x.v = <<"true">> THEN 1 ELSE 0) ELSE x.v[1]

\* a == b
PyEq(a, b) ==
    IF a.t \in {"int", "bool"} /\ b.t \in {"int", "bool"} THEN NumVal(a) = NumVal(b)
    ELSE a.t = b.t /\ a.v = b.v

\* val in schema["enum"]
PyIn(val, list) == \E i \in DOMAIN list : PyEq(val, list[i])

\* label = path or "parameter"
Label(path) == IF path = <<>> THEN <<"parameter">> ELSE path

\* f"{path}.{key}" if path else key
Mut_ChildPath(path, key) == <<key>>

ChildPath(path, key) == IF path = <<>> THEN <<key>> ELSE path \o <<".", key>>

\* f"{path}[{index}]" if path else f"[{index}]"
IndexTokens == <<"[0]", "[1]", "[2]", "[3]">>
IndexPath(path, index) == path \o <<IndexTokens[index + 1]>>

ValidationError(kind, path, mentions) ==
    [kind |-> kind, label |-> Label(path), mentions |-> mentions]

RECURSIVE Extend(_)
\* errors.extend(...) over a run of lists
Extend(lists) ==
    IF lists = <<>> THEN <<>> ELSE Head(lists) \o Extend(Tail(lists))

\* the missing keys named by the texts of a list of errors
Mentions(errors) == UNION { errors[i].mentions : i \in DOMAIN errors }

\* the error appended once the oneOf variants are counted
Mut_OneOfErrors(match_count, path, variant_errors) ==
    IF match_count = 0
    THEN <<ValidationError("oneOf_none", path, Mentions(Extend(variant_errors)))>>
    ELSE <<>>

OneOfErrors(match_count, path, variant_errors) ==
    IF match_count = 0
    THEN <<ValidationError("oneOf_none", path, Mentions(Extend(variant_errors)))>>
    ELSE IF match_count > 1
    THEN <<ValidationError("oneOf_multiple", path, {})>>
    ELSE <<>>

\* the error appended when no anyOf variant matched
AnyOfErrors(matched_any, path, variant_errors) ==
    IF matched_any THEN <<>>
    ELSE <<ValidationError("anyOf", path, Mentions(Extend(variant_errors)))>>

RECURSIVE _validate(_, _, _)
_validate(val, schema, path) ==
    LET schema_type == schema.type
    IN
    IF schema_type = "list"
    THEN LET candidate_errors ==
                 [i \in DOMAIN schema.candidates |->
                     _validate(val, [schema EXCEPT !.type = schema.candidates[i],
                                                   !.candidates = <<>>], path)]
         IN  IF \E i \in DOMAIN candidate_errors : candidate_errors[i] = <<>>
             THEN <<>>
             ELSE <<ValidationError("union", path, {})>>
                      \o (IF candidate_errors = <<>> THEN <<>> ELSE candidate_errors[1])
    ELSE IF schema_type \in {"integer", "number"} /\ val.t = "bool"
    THEN <<ValidationError("type", path, {})>>
    ELSE IF schema_type \in TypeNames /\ ~IsInstance(val, schema_type)
    THEN <<ValidationError("type", path, {})>>
    ELSE
    LET enum_errors ==
            IF schema.enum # <<>> /\ ~PyIn(val, schema.enum)
            THEN <<ValidationError("enum", path, {})>> ELSE <<>>
        range_errors ==
            IF schema_type \in {"integer", "number"}
            THEN (IF schema.minimum # <<>> /\ NumVal(val) < schema.minimum[1]
                  THEN <<ValidationError("minimum", path, {})>> ELSE <<>>)
                 \o (IF schema.maximum # <<>> /\ NumVal(val) > schema.maximum[1]
                     THEN <<ValidationError("maximum", path, {})>> ELSE <<>>)
            ELSE <<>>
        length_errors ==
            IF schema_type = "string" /\ val.t = "str"
            THEN (IF schema.minLength # <<>> /\ Len(val.v) < schema.minLength[1]
                  THEN <<ValidationError("minLength", path, {})>> ELSE <<>>)
                 \o (IF schema.maxLength # <<>> /\ Len(val.v) > schema.maxLength[1]
                     THEN <<ValidationError("maxLength", path, {})>> ELSE <<>>)
            ELSE <<>>
        object_errors ==
            IF schema_type = "object" /\ val.t = "dict"
            THEN LET missing == SelectSeq(schema.required, LAMBDA key : ~HasKey(val, key))
                 IN  [i \in DOMAIN missing |->
                         ValidationError("missing", path, {ChildPath(path, missing[i])})]
                     \o Extend([i \in DOMAIN val.v |->
                            IF val.v[i].k \in DOMAIN schema.properties
                            THEN _validate(val.v[i].val, schema.properties[val.v[i].k],
                                           ChildPath(path, val.v[i].k))
                            ELSE <<>>])
            ELSE <<>>
        array_errors ==
            IF schema_type = "array" /\ val.t = "list" /\ schema.items # <<>>
            THEN Extend([i \in DOMAIN val.v |->
                     _validate(val.v[i], schema.items[1], IndexPath(path, i - 1))])
            ELSE <<>>
        any_errors == [i \in DOMAIN schema.anyOf |-> _validate(val, schema.anyOf[i], path)]
        any_of_errors ==
            IF schema.anyOf # <<>>
            THEN AnyOfErrors(\E i \in DOMAIN any_errors : any_errors[i] = <<>>,
                             path, any_errors)
            ELSE <<>>
        one_errors == [i \in DOMAIN schema.oneOf |-> _validate(val, schema.oneOf[i], path)]
        one_of_errors ==
            IF schema.oneOf # <<>>
            THEN OneOfErrors(Cardinality({i \in DOMAIN one_errors : one_errors[i] = <<>>}),
                             path, one_errors)
            ELSE <<>>
    IN  enum_errors \o range_errors \o length_errors \o object_errors
            \o array_errors \o any_of_errors \o one_of_errors

\* validate_params: a schema whose type is not "object" raises ValueError
validate_params(parameters, params) ==
    IF parameters.type \notin {"", "object"}
    THEN [raised |-> TRUE, errors |-> <<>>]
    ELSE [raised |-> FALSE,
          errors |-> _validate(params, [parameters EXCEPT !.type = "object"], <<>>)]

\* the schema of a tool with a string, a bounded integer, an enum and an
\* object nested two deep
SampleParameters ==
    [Typed("object") EXCEPT
        !.properties =
            [query |-> [Typed("string") EXCEPT !.minLength = <<2>>],
             count |-> [Typed("integer") EXCEPT !.minimum = <<1>>, !.maximum = <<3>>],
             mode |-> [Typed("string") EXCEPT !.enum = <<Str(<<"f">>), Str(<<"g">>)>>],
             meta |-> [Typed("object") EXCEPT
                          !.properties =
                              [tag |-> Typed("string"),
                               inner |-> [Typed("object") EXCEPT
                                             !.properties = [id |-> Typed("integer")],
                                             !.required = <<"id">>]],
                          !.required = <<"tag">>]],
        !.required = <<"query", "count">>]

\* the schema of a tool with type unions, an array of objects, anyOf and oneOf
UnionParameters ==
    [Typed("object") EXCEPT
        !.properties =
            [value |-> Union(<<"string", "integer">>),
             meta |-> [Union(<<"null", "object">>) EXCEPT
                          !.properties = [tag |-> Typed("string")],
                          !.required = <<"tag">>],
             rows |-> [Typed("array") EXCEPT
                          !.items = <<[Typed("object") EXCEPT
                                          !.properties = [id |-> Typed("integer")],
                                          !.required = <<"id">>]>>],
             payload |-> [Node EXCEPT
                             !.anyOf = <<Typed("string"),
                                         [Typed("array") EXCEPT
                                             !.items = <<Typed("integer")>>]>>],
             marker |-> [Node EXCEPT
                            !.oneOf = <<[Typed("string") EXCEPT !.minLength = <<1>>],
                                        [Typed("integer") EXCEPT !.minimum = <<1>>]>>],
             span |-> [Node EXCEPT
                          !.oneOf = <<[Typed("integer") EXCEPT !.minimum = <<1>>],
                                      [Typed("integer") EXCEPT !.maximum = <<5>>]>>]],
        !.required = <<"value", "marker">>]

Parameters(tool) == IF tool = "sample" THEN SampleParameters ELSE UnionParameters

\* the arguments the sample tool is called with
SampleArgs ==
    { DictOf(<<Item("query", q), Item("count", c), Item("mode", md),
               Item("meta", m), Item("extra", x)>>) :
        q \in {Absent, Str(<<"h", "i">>), Str(<<"h">>), Int(5)},
        c \in {Absent, Int(2), Int(0), Bool(TRUE), Str(<<"2">>)},
        md \in {Absent, Str(<<"f">>), Str(<<"s">>)},
        m \in {Absent, Str(<<"x">>), DictOf(<<>>),
               DictOf(<<Item("tag", Str(<<"t">>))>>),
               DictOf(<<Item("inner", DictOf(<<>>))>>),
               DictOf(<<Item("tag", Str(<<"t">>)), Item("inner", DictOf(<<>>))>>),
               DictOf(<<Item("tag", Str(<<"t">>)),
                        Item("inner", DictOf(<<Item("id", Int(1))>>))>>)},
        x \in {Absent, Str(<<"x">>)} }

\* the arguments the union tool is called with
UnionArgs ==
    { DictOf(<<Item("value", v), Item("meta", m), Item("rows", r),
               Item("payload", pl), Item("marker", mk), Item("span", sp)>>) :
        v \in {Absent, Str(<<"a">>), Int(1), PyList(<<Int(1)>>)},
        m \in {Absent, NoneVal, DictOf(<<>>), DictOf(<<Item("tag", Str(<<"t">>))>>)},
        r \in {Absent, PyList(<<>>),
               PyList(<<DictOf(<<Item("id", Int(1))>>), DictOf(<<>>)>>)},
        pl \in {Absent, Str(<<"s">>), PyList(<<Int(1)>>), PyList(<<Int(1), Str(<<"b">>)>>)},
        mk \in {Absent, Str(<<>>), Str(<<"t">>), Int(1), Int(0), Bool(TRUE)},
        sp \in {Absent, Int(3), Int(9), Int(0)} }

\* tool.validate_params(params) for the sample tool
ValidateSample ==
    /\ validated = NotValidated
    /\ \E params \in SampleArgs :
        LET r == validate_params(SampleParameters, params)
        IN  validated' = [tool |-> "sample", params |-> params,
                          raised |-> r.raised, errors |-> r.errors]
    /\ UNCHANGED <<core_vars, late_but_valid>>

\* tool.validate_params(params) for the union tool
ValidateUnion ==
    /\ validated = NotValidated
    /\ \E params \in UnionArgs :
        LET r == validate_params(UnionParameters, params)
        IN  validated' = [tool |-> "union", params |-> params,
                          raised |-> r.raised, errors |-> r.errors]
    /\ UNCHANGED <<core_vars, late_but_valid>>

ValidateNext ==
    \/ ValidateSample
    \/ ValidateUnion

ValidateInit ==
    /\ LoopIdle
    /\ DetIdle
    /\ BusInit
    /\ SubInit

SpecValidate == ValidateInit /\ [][ValidateNext]_vars

\* what a schema asks of a value, keyword by keyword, the way JSON Schema
\* reads them
RECURSIVE Conforms(_, _)
Conforms(val, schema) ==
    IF schema.type = "list"
    THEN \E i \in DOMAIN schema.candidates :
             Conforms(val, [schema EXCEPT !.type = schema.candidates[i],
                                          !.candidates = <<>>])
    ELSE
    /\ CASE schema.type = "string" -> val.t = "str"
         [] schema.type \in {"integer", "number"} -> val.t = "int"
         [] schema.type = "boolean" -> val.t = "bool"
         [] schema.type = "array" -> val.t = "list"
         [] schema.type = "object" -> val.t = "dict"
         [] schema.type = "null" -> val.t = "none"
         [] OTHER -> TRUE
    /\ schema.enum # <<>> =>
           \E i \in DOMAIN schema.enum : schema.enum[i].t = val.t /\ schema.enum[i].v = val.v
    /\ val.t = "int" =>
           /\ schema.minimum # <<>> => val.v[1] >= schema.minimum[1]
           /\ schema.maximum # <<>> => val.v[1] <= schema.maximum[1]
    /\ val.t = "str" =>
           /\ schema.minLength # <<>> => Len(val.v) >= schema.minLength[1]
           /\ schema.maxLength # <<>> => Len(val.v) <= schema.maxLength[1]
    /\ val.t = "dict" =>
           /\ \A i \in DOMAIN schema.required : HasKey(val, schema.required[i])
           /\ \A i \in DOMAIN val.v :
                  val.v[i].k \in DOMAIN schema.properties =>
                      Conforms(val.v[i].val, schema.properties[val.v[i].k])
    /\ (val.t = "list" /\ schema.items # <<>>) =>
           \A i \in DOMAIN val.v : Conforms(val.v[i], schema.items[1])
    /\ schema.anyOf # <<>> =>
           \E i \in DOMAIN schema.anyOf : Conforms(val, schema.anyOf[i])
    /\ schema.oneOf # <<>> =>
           Cardinality({i \in DOMAIN schema.oneOf : Conforms(val, schema.oneOf[i])}) = 1

DottedPath(path, key) == IF path = <<>> THEN <<key>> ELSE path \o <<".">> \o <<key>>

\* the dotted paths of the required keys a value leaves out, at any depth of
\* objects and arrays; with plain set, an object under a type union that does
\* not list "object" first is passed over
RECURSIVE Omitted(_, _, _, _)
Omitted(val, schema, path, plain) ==
    IF plain /\ schema.type = "list" /\ schema.candidates[1] # "object"
    THEN {}
    ELSE IF val.t = "dict"
    THEN { DottedPath(path, schema.required[i]) :
             i \in { j \in DOMAIN schema.required : ~HasKey(val, schema.required[j]) } }
         \cup UNION { IF val.v[i].k \in DOMAIN schema.properties
                      THEN Omitted(val.v[i].val, schema.properties[val.v[i].k],
                                   DottedPath(path, val.v[i].k), plain)
                      ELSE {} : i \in DOMAIN val.v }
    ELSE IF val.t = "list" /\ schema.items # <<>>
    THEN UNION { Omitted(val.v[i], schema.items[1],
                         path \o <<IndexTokens[i]>>, plain) : i \in DOMAIN val.v }
    ELSE {}

Named(path) == \E i \in DOMAIN validated.errors : path \in validated.errors[i].mentions

\* C27 as stated: arguments that satisfy the schema get an empty error list,
\* extra keys or not, and every required key left out at any depth is named
\* by its dotted path in an error
C27_ValidAcceptedOmittedNamed ==
    validated # NotValidated =>
        /\ ~validated.raised
        /\ Conforms(validated.params, Parameters(validated.tool)) => validated.errors = <<>>
        /\ \A path \in Omitted(validated.params, Parameters(validated.tool), <<>>, FALSE) :
               Named(path)

\* C27, amended: as above, but a required key left out of an object whose
\* schema is a type union naming another type before "object" need not be
\* named: the errors kept are those of the first candidate type
C27_OmittedNamedUnlessLaterCandidate ==
    validated # NotValidated =>
        /\ ~validated.raised
        /\ Conforms(validated.params, Parameters(validated.tool)) => validated.errors = <<>>
        /\ \A path \in Omitted(validated.params, Parameters(validated.tool), <<>>, TRUE) :
               Named(path)
        /\ validated.errors = <<>> =>
               Omitted(validated.params, Parameters(validated.tool), <<>>, FALSE) = {}

\* the sample tool called with an extra key and without count and
\* meta.inner.id: both are named, by their paths
C27_Witness ==
    /\ validated # NotValidated
    /\ validated.tool = "sample"
    /\ HasKey(validated.params, "extra")
    /\ Omitted(validated.params, SampleParameters, <<>>, TRUE)
           = {<<"count">>, <<"meta", ".", "inner", ".", "id">>}
    /\ Named(<<"count">>)
    /\ Named(<<"meta", ".", "inner", ".", "id">>)

\* the errors whose text starts with the name of a top-level key
ErrorKinds(key) ==
    { validated.errors[i].kind :
        i \in { j \in DOMAIN validated.errors : validated.errors[j].label = <<key>> } }

Matching(val, variants) == { i \in DOMAIN variants : Conforms(val, variants[i]) }

\* C28: a value under oneOf is accepted iff exactly one branch validates it;
\* no matching branch gives the no-match error and two or more give the
\* ambiguous-match error, a different one; under anyOf a value is accepted
\* iff at least one branch validates it
C28_OneOfExactlyOne ==
    (validated # NotValidated /\ validated.tool = "union") =>
        /\ \A key \in {"marker", "span"} :
            HasKey(validated.params, key) =>
                LET n == Cardinality(Matching(ValueAt(validated.params, key),
                                              UnionParameters.properties[key].oneOf))
                IN  /\ n = 1 <=> ErrorKinds(key) = {}
                    /\ n = 0 => ErrorKinds(key) = {"oneOf_none"}
                    /\ n > 1 => ErrorKinds(key) = {"oneOf_multiple"}
        /\ HasKey(validated.params, "payload") =>
               (Matching(ValueAt(validated.params, "payload"),
                         UnionParameters.properties.payload.anyOf) # {}
                   <=> ErrorKinds("payload") = {})

\* one call in which span matches both branches, marker matches none and
\* payload matches one
C28_Witness ==
    /\ validated # NotValidated
    /\ validated.tool = "union"
    /\ HasKey(validated.params, "span") /\ ValueAt(validated.params, "span") = Int(3)
    /\ ErrorKinds("span") = {"oneOf_multiple"}
    /\ HasKey(validated.params, "marker") /\ ValueAt(validated.params, "marker") = Str(<<>>)
    /\ ErrorKinds("marker") = {"oneOf_none"}
    /\ HasKey(validated.params, "payload") /\ ErrorKinds("payload") = {}

-----------------------------------------------------------------------------
(* agent/safety.py: normalize_args character by character.  A command is the
   sequence of its characters; the file system has the directory /w and the
   symbolic link /l to it, and the workspace root is given as one or the
   other. *)

MaxSigChecks == 3

\* the workspace root as it is spelled, segment by segment
WorkspaceRoots == { <<"w">>, <<"l">> }

\* the segments of a path between its slashes
RECURSIVE SplitPath(_, _)
SplitPath(text, segment) ==
    IF text = <<>> THEN <<segment>>
    ELSE IF Head(text) = "/" THEN <<segment>> \o SplitPath(Tail(text), <<>>)
    ELSE SplitPath(Tail(text), Append(segment, Head(text)))

\* a symbolic link is followed as soon as the walk reaches it
FollowLink(stack) == IF stack = <<"l">> THEN <<"w">> ELSE stack

\* Path.resolve(): "" and "." are dropped, ".." goes up, links are followed
RECURSIVE Walk(_, _)
Walk(stack, segments) ==
    IF segments = <<>> THEN stack
    ELSE LET seg == Head(segments)
         IN  IF seg = <<>> \/ seg = <<".">> THEN Walk(stack, Tail(segments))
             ELSE IF seg = <<".", ".">>
             THEN Walk(IF stack = <<>> THEN <<>> ELSE SubSeq(stack, 1, Len(stack) - 1),
                       Tail(segments))
             ELSE Walk(FollowLink(Append(stack, seg[1])), Tail(segments))

\* str(path) of an absolute path
PathText(stack) ==
    IF stack = <<>> THEN <<"/">>
    ELSE Extend([i \in DOMAIN stack |-> <<"/", stack[i]>>])

\* str((self.workspace_root / m.group(0)).resolve())
resolve(root, match) == PathText(Walk(FollowLink(root), SplitPath(match, <<>>)))

\* \.{1,2}/[^\s]+ matches at position i
RelativeAt(text, i) ==
    /\ text[i] = "."
    /\ \/ i + 3 <= Len(text) /\ text[i + 1] = "." /\ text[i + 2] = "/"
              /\ ~IsSpace(text[i + 3])
       \/ i + 2 <= Len(text) /\ text[i + 1] = "/" /\ ~IsSpace(text[i + 2])

\* where the run of non-blank characters that starts at i ends
RunEnd(text, i) ==
    IF \E k \in i .. Len(text) : IsSpace(text[k])
    THEN (CHOOSE k \in i .. Len(text) :
              IsSpace(text[k]) /\ \A j \in i .. k - 1 : ~IsSpace(text[j])) - 1
    ELSE Len(text)

\* re.sub(r"\.{1,2}/[^\s]+", resolve, cmd)
RECURSIVE ResolveRelative(_, _, _)
ResolveRelative(root, text, i) ==
    IF i > Len(text) THEN <<>>
    ELSE IF RelativeAt(text, i)
    THEN resolve(root, SubSeq(text, i, RunEnd(text, i)))
             \o ResolveRelative(root, text, RunEnd(text, i) + 1)
    ELSE <<text[i]>> \o ResolveRelative(root, text, i + 1)

\* resolved.replace("\\", "/")
ForwardSlashes(text) == [i \in DOMAIN text |-> IF text[i] = "\\" THEN "/" ELSE text[i]]

IsLetter(c) == c \in {"a", "c", "f", "g", "l", "t", "w", "C"}

\* re.sub(r"(?i)[A-Za-z]:/", "/", resolved)
RECURSIVE DropDrives(_, _)
DropDrives(text, i) ==
    IF i > Len(text) THEN <<>>
    ELSE IF i + 2 <= Len(text) /\ IsLetter(text[i]) /\ text[i + 1] = ":"
              /\ text[i + 2] = "/"
    THEN <<"/">> \o DropDrives(text, i + 3)
    ELSE <<text[i]>> \o DropDrives(text, i + 1)

\* re.sub(r"/{2,}", "/", resolved)
CollapseSlashes(text) ==
    SelectSeq([i \in DOMAIN text |->
                  IF text[i] = "/" /\ i > 1 /\ text[i - 1] = "/" THEN "" ELSE text[i]],
              LAMBDA c : c # "")

NormalizedCommand(root, cmd) ==
    CollapseSlashes(DropDrives(ForwardSlashes(ResolveRelative(root, cmd, 1)), 1))

\* json.dumps(..., sort_keys=True): the items in the order of their keys
SortedKeys == <<"command", "force", "reason", "working_dir">>
json_dumps(d) ==
    Extend([i \in DOMAIN SortedKeys |->
               IF HasKey(d, SortedKeys[i])
               THEN <<Item(SortedKeys[i], ValueAt(d, SortedKeys[i]))>>
               ELSE <<>>])

\* normalize_args for a dict given item by item; the command is a str
NormalizedArgs(root, tool_name, args) ==
    json_dumps(
        IF tool_name = "exec" /\ HasKey(args, "command")
        THEN PyDict([i \in DOMAIN args.v |->
                        IF args.v[i].k = "command"
                        THEN Item("command",
                                  Str(NormalizedCommand(root, args.v[i].val.v)))
                        ELSE args.v[i]])
        ELSE args)

\* f"{tool_name}:{self.normalize_args(tool_name, args)}"
SignatureText(root, tool_name, args) ==
    <<tool_name, ":", NormalizedArgs(root, tool_name, args)>>

Cat == <<"c", "a", "t", " ">>

\* the ways a read of a file of the workspace is spelled: relative to the
\* root, by the absolute path under the root as the root is spelled, the same
\* with a doubled slash or with backslashes and a drive letter, and through
\* the parent directory
Spellings(root, file) ==
    { [file |-> file, command |-> Cat \o <<".", "/", file>>],
      [file |-> file, command |-> Cat \o <<"/">> \o root \o <<"/", file>>],
      [file |-> file, command |-> Cat \o <<"/">> \o root \o <<"/", "/", file>>],
      [file |-> file, command |-> Cat \o <<"C", ":", "\\">> \o root \o <<"\\", file>>],
      [file |-> file, command |-> Cat \o <<".", ".", "/">> \o root \o <<"/", file>>] }

\* the exec calls checked: a spelling of f or of g, with the keys of the
\* arguments in either order
ReadCalls(root) ==
    { [file |-> sp.file,
       args |-> IF command_first
                THEN PyDict(<<Item("command", Str(sp.command)),
                              Item("working_dir", Str(<<"/">>))>>)
                ELSE PyDict(<<Item("working_dir", Str(<<"/">>)),
                              Item("command", Str(sp.command))>>)] :
        sp \in Spellings(root, "f") \cup {[file |-> "g", command |-> Cat \o <<".", "/", "g">>]},
        command_first \in BOOLEAN }

\* OscillationDetector(workspace_root) with the default window and threshold
SigBegin ==
    /\ sigs = NoSigs
    /\ \E root \in WorkspaceRoots : sigs' = [NoSigs EXCEPT !.root = root]
    /\ UNCHANGED <<core_vars, late_but_sig>>

\* check("exec", args) for a read command: no write pattern matches cat, so
\* the call goes to the signature
SigCheck ==
    /\ sigs.root # <<>>
    /\ Len(sigs.log) < MaxSigChecks
    /\ \E c \in ReadCalls(sigs.root) :
        LET sig == SignatureText(sigs.root, "exec", c.args)
            r == CheckSignature(sigs.det, DefaultThreshold, DefaultWindow, sig)
        IN  sigs' = [root |-> sigs.root, det |-> r.det,
                     log |-> Append(sigs.log, [file |-> c.file, args |-> c.args,
                                               sig |-> sig, result |-> r.result])]
    /\ UNCHANGED <<core_vars, late_but_sig>>

SigNext ==
    \/ SigBegin
    \/ SigCheck

SigInit ==
    /\ LoopIdle
    /\ DetIdle
    /\ BusInit
    /\ SubInit

SpecSignature == SigInit /\ [][SigNext]_vars

\* the calls of the log that name one file have one signature, and the
\* threshold-th of a run of calls naming one file is refused
SameFileSameAction ==
    /\ \A i, j \in DOMAIN sigs.log :
           sigs.log[i].file = sigs.log[j].file => sigs.log[i].sig = sigs.log[j].sig
    /\ \A k \in DOMAIN sigs.log :
           (k >= DefaultThreshold
               /\ \A j \in (k - DefaultThreshold + 1) .. k :
                      sigs.log[j].file = sigs.log[k].file)
             => sigs.log[k].result = Refusal

\* C29: signatures are insensitive to path spelling and key order: exec reads
\* naming the same file relatively and by its absolute path under the
\* workspace root have equal signatures, so alternating between the spellings
\* counts as repeating one action and is refused at the threshold
C29_SpellingsAreOneAction == SameFileSameAction

\* what the code keeps of C29: with a workspace root that is no symbolic link
\* the spellings and key orders of one file are one action
SpellingsAreOneActionUnlinked == sigs.root = <<"w">> => SameFileSameAction

\* under the root /l, a link to /w, cat ./f and cat /l/f were checked in turn
\* three times without a refusal
SpellingsDiffer ==
    /\ sigs.root = <<"l">>
    /\ Len(sigs.log) = 3
    /\ \A k \in 1..3 : sigs.log[k].file = "f" /\ sigs.log[k].result = NoneResult
    /\ sigs.log[1].sig # sigs.log[2].sig

-----------------------------------------------------------------------------
(* channels/manager.py: ChannelManager._dispatch_outbound, the one consumer of
   the outbound queue, with the subscribers of bus/queue.py *)

\* the channels the manager was configured with; cli is none of them
EnabledChannels == {"discord"}

\* the callbacks of its channel the dispatcher invokes for a message it has
\* consumed: the loop body sends the message and goes back to
\* consume_outbound, and notify_subscribers is called nowhere
InvokedByDispatcher(callbacks) == <<>>

\* the agent publishes an outbound message for a channel
ManagerPublish ==
    /\ Len(Msgs(out_put)) + Len(out_late) < MaxPublish
    /\ \E c \in Channels :
        publish_outbound([kind |-> "msg", channel |-> c,
                          id |-> Len(Msgs(out_put)) + Len(out_late) + 1])
    /\ UNCHANGED <<inbound, in_shutdown, out_shutdown, in_put, in_late,
                   in_got, out_got, stop_calls>>
    /\ UNCHANGED <<spawn_vars, cache_vars, reg_vars, conc_vars, late_vars,
                   det_vars, sub_vars, loop_vars>>

\* one round of the dispatcher's loop: consume_outbound, then stop on None,
\* send to the channel when it is known (the send returns or raises, and the
\* error is logged), log a warning when it is not
ManagerDispatch ==
    /\ manager.looping
    /\ consume_outbound
    /\ LET message == ConsumeResult(QueueGet(outbound))
       IN  IF message = EndOfStream
           THEN manager' = [manager EXCEPT !.looping = FALSE]
           ELSE \E outcome \in {"sent", "raised"} :
                    manager' =
                        [manager EXCEPT !.handled = Append(@,
                            [id |-> message.id, channel |-> message.channel,
                             send |-> IF message.channel \in EnabledChannels
                                      THEN outcome ELSE "unknown channel",
                             subscribed |-> subscribers[message.channel],
                             invoked |-> InvokedByDispatcher(
                                             subscribers[message.channel])])]
    /\ UNCHANGED <<inbound, in_shutdown, out_shutdown, in_put, out_put,
                   in_late, out_late, in_got, stop_calls>>
    /\ UNCHANGED <<spawn_vars, cache_vars, reg_vars, conc_vars, det_vars,
                   sub_vars, loop_vars, late_but_manager>>

ManagerNext ==
    \/ ManagerPublish
    \/ SubscribeOutbound
    \/ ManagerDispatch
    \/ BusStop

ManagerInit ==
    /\ LoopIdle
    /\ DetIdle
    /\ BusInit
    /\ SubInit

SpecManager == ManagerInit /\ [][ManagerNext]_vars

\* C30: every outbound message the dispatcher consumes is handed to
\* notify_subscribers after the send to its channel, so every callback
\* subscribed for that channel is invoked once for the message
C30_SubscribersNotified ==
    \A i \in DOMAIN manager.handled :
        manager.handled[i].invoked = manager.handled[i].subscribed

\* the dispatcher sent a message to discord, two callbacks were subscribed
\* for discord, and neither was invoked
SubscribersSkipped ==
    \E i \in DOMAIN manager.handled :
        /\ manager.handled[i].channel = "discord"
        /\ manager.handled[i].send = "sent"
        /\ Len(manager.handled[i].subscribed) = 2
        /\ manager.handled[i].invoked = <<>>

-----------------------------------------------------------------------------
(* agent/safety.py: write verbs behind wrappers *)

\* one documented wrapper around a command: an environment assignment, a
\* privilege or command wrapper, env with an assignment, a shell or python
\* with -c and the command as one quoted token, python -m
Wrappers(c) ==
    { <<W("A=1")>> \o c,
      <<W("sudo")>> \o c,
      <<W("command")>> \o c,
      <<W("env"), W("A=1")>> \o c,
      <<W("bash"), W("-c"), Quote(c)>>,
      <<W("python"), W("-c"), Quote(c)>>,
      <<W("python"), W("-m")>> \o c }

WrappedOnce == UNION { Wrappers(c) : c \in MutatingCommands }
WrappedTwice == UNION { Wrappers(c) : c \in WrappedOnce }
WrappedCommands == MutatingCommands \cup WrappedOnce \cup WrappedTwice

\* a read-only check that puts a signature into the window
UnwrapRead ==
    /\ Len(det_log) < 2
    /\ LET r == Check(det, threshold, window_size, "read_file", ReadA)
       IN  /\ det' = r.det
           /\ det_log' = Append(det_log, [call |-> Call("read_file", ReadA),
                                          result |-> r.result, write |-> FALSE])
    /\ UNCHANGED <<threshold, window_size>>
    /\ UNCHANGED <<bus_vars, sub_vars, loop_vars, spawn_vars, cache_vars,
                   reg_vars, conc_vars, late_vars>>

\* check("exec", {"command": c}) for a wrapped mutating command c
UnwrapCheck ==
    /\ det_log # <<>>
    /\ det_log[Len(det_log)].call.name = "read_file"
    /\ \E c \in WrappedCommands :
        LET args == [command |-> Cmd(c)]
            r == Check(det, threshold, window_size, "exec", args)
        IN  /\ det' = r.det
            /\ det_log' = Append(det_log, [call |-> Call("exec", args),
                                           result |-> r.result,
                                           write |-> IsWrite("exec", args)])
    /\ UNCHANGED <<threshold, window_size>>
    /\ UNCHANGED <<bus_vars, sub_vars, loop_vars, spawn_vars, cache_vars,
                   reg_vars, conc_vars, late_vars>>

UnwrapNext ==
    \/ UnwrapRead
    \/ UnwrapCheck

UnwrapInit ==
    /\ threshold = DefaultThreshold
    /\ window_size = DefaultWindow
    /\ det = [history |-> <<>>, just_wrote |-> FALSE]
    /\ det_log = <<>>
    /\ BusInit
    /\ SubInit
    /\ LoopIdle

SpecUnwrap == UnwrapInit /\ [][UnwrapNext]_vars

\* C31: an exec command made of a mutating verb behind any combination and
\* nesting of the documented wrappers is classified as a write: check()
\* returns None and leaves the window empty, so the command is never recorded
\* as a read signature
C31_WrappedWriteIsWrite ==
    \A k \in DOMAIN det_log :
        det_log[k].call.name = "exec" =>
            /\ det_log[k].write
            /\ det_log[k].result = NoneResult
            /\ det.history = <<>>

\* what the code guarantees: a wrapped mutating command that holds no quoted
\* word inside a quoted token and does not begin with python is a write
OneQuotingLayerIsWrite ==
    \A k \in DOMAIN det_log :
        ( /\ det_log[k].call.name = "exec"
          /\ \A j \in DOMAIN det_log[k].call.args.command.v :
                \A w \in DOMAIN det_log[k].call.args.command.v[j] :
                    Unquote(det_log[k].call.args.command.v[j][w])
                        = W(det_log[k].call.args.command.v[j][w])
          /\ det_log[k].call.args.command.v[1] # W("python") )
        => det_log[k].write

\* sh -c "sh -c 'rm x'" entered the window as a read
WrappedWriteRecorded ==
    /\ Len(det_log) = 2
    /\ det_log[2].call.args =
           [command |-> Cmd(<<W("bash"), W("-c"), <<"bash", "-c", "'rm x'">>>>)]
    /\ ~det_log[2].write
    /\ Len(det.history) = 2

-----------------------------------------------------------------------------
(* agent/loop.py: the transcript of one turn, in either loop variant *)

Message(role, id, ids) == [role |-> role, id |-> id, ids |-> ids]

\* ContextBuilder.add_assistant_message: one assistant message that carries
\* the ids of the response's tool calls
add_assistant_message(messages, ids) ==
    Append(messages, Message("assistant", <<>>, ids))

\* ContextBuilder.add_tool_result: one tool message for the call id
add_tool_result(messages, id) == Append(messages, Message("tool", id, <<>>))

\* the branches of the for loop that call add_tool_result before they go on to
\* the next tool call: every one of them
Mut_AddsToolResult(result) == result \in {"plan_ack", "force_error", "executed"}
AddsToolResult(result) ==
    result \in {"plan_ack", "force_error", "safety_block", "executed"}

TranscriptCalls ==
    { PlanCall, BadForceRead, Call("read_file", ReadA),
      Call("exec", [command |-> Int(42)]), Call("nope", ReadA) }

\* _process_message is given a message: of a user, or of the system channel
TranscriptBegin ==
    /\ transcript.pc = "idle"
    /\ \E kind \in {"user", "system"} :
        transcript' = [NoTranscript EXCEPT !.pc = "model", !.kind = kind,
                                           !.messages = <<Message("user", <<>>, <<>>)>>]
    /\ UNCHANGED <<core_vars, late_but_transcript>>

\* provider.chat returns tool calls: the assistant message is added
TranscriptModelAsks ==
    /\ transcript.pc = "model"
    /\ \E n \in 1..MaxToolCalls :
        LET ids == [i \in 1..n |-> <<transcript.iteration + 1, i>>]
        IN  transcript' = [transcript EXCEPT
                !.pc = "tools", !.iteration = @ + 1, !.ids = ids, !.next = 1,
                !.messages = add_assistant_message(@, ids), !.path = "none"]
    /\ UNCHANGED <<core_vars, late_but_transcript>>

\* provider.chat returns a final answer: the loop is left
TranscriptModelAnswers ==
    /\ transcript.pc = "model"
    /\ transcript' = [transcript EXCEPT !.pc = "done", !.iteration = @ + 1,
                                        !.path = "none"]
    /\ UNCHANGED <<core_vars, late_but_transcript>>

\* where the turn stands once the call at position `next` is dealt with
AfterCall(t) ==
    IF t.next < Len(t.ids) THEN "tools"
    ELSE IF t.iteration < max_iterations THEN "model"
    ELSE "done"

\* the body of the for loop for the next tool call of the response
TranscriptDispatch ==
    /\ transcript.pc = "tools"
    /\ \E call \in TranscriptCalls : \E valid \in BOOLEAN : \E body \in {"ok", "failed", "raise"} :
        LET id == transcript.ids[transcript.next]
            r == IF transcript.kind = "user"
                 THEN DispatchUser(call, transcript.det, transcript.attempts, valid, body)
                 ELSE [raised |-> FALSE, det |-> transcript.det,
                       attempts |-> transcript.attempts, result |-> "executed"]
        IN  /\ ~r.raised
            /\ transcript' = [transcript EXCEPT
                    !.pc = AfterCall(transcript), !.next = @ + 1,
                    !.det = r.det, !.attempts = r.attempts, !.path = r.result,
                    !.messages = IF AddsToolResult(r.result)
                                 THEN add_tool_result(@, id) ELSE @]
    /\ UNCHANGED <<core_vars, late_but_transcript>>

\* safety.check raises on the next tool call: the exception leaves
\* _process_message and the transcript with it
TranscriptRaises ==
    /\ transcript.pc = "tools"
    /\ transcript.kind = "user"
    /\ \E call \in TranscriptCalls :
        /\ DispatchUser(call, transcript.det, transcript.attempts, TRUE, "ok").raised
        /\ transcript' = [transcript EXCEPT !.pc = "raised", !.path = "raised"]
    /\ UNCHANGED <<core_vars, late_but_transcript>>

TranscriptNext ==
    \/ TranscriptBegin
    \/ TranscriptModelAsks
    \/ TranscriptModelAnswers
    \/ TranscriptDispatch
    \/ TranscriptRaises

TranscriptInit ==
    /\ LoopIdle
    /\ DetIdle
    /\ BusInit
    /\ SubInit

SpecTranscript == TranscriptInit /\ [][TranscriptNext]_vars

\* the assistant message at position p is followed by the results of its
\* tool calls, one per call and in the order of the calls, as far as the
\* transcript goes; by all of them if `whole`; and by no further result
AnsweredInOrder(messages, p, whole) ==
    LET ids == messages[p].ids
        n == Len(ids)
    IN  /\ \A i \in 1..n : p + i <= Len(messages) =>
               (messages[p + i].role = "tool" /\ messages[p + i].id = ids[i])
        /\ whole => Len(messages) >= p + n
        /\ Len(messages) > p + n => messages[p + n + 1].role = "assistant"

\* C36: in both loop variants, for every model response that carries tool
\* calls the transcript receives one assistant message followed by exactly one
\* tool result per tool call, with the call's id and in the order of the
\* calls, on every path: when the next model call is made (or the loop is
\* left) no tool call is unanswered or answered twice
C36_EveryCallAnsweredOnce ==
    LET messages == transcript.messages
    IN  /\ \A p \in DOMAIN messages :
            /\ messages[p].role = "assistant" =>
                   AnsweredInOrder(messages, p,
                       transcript.pc \in {"model", "done"}
                           \/ \E q \in DOMAIN messages :
                                  q > p /\ messages[q].role = "assistant")
            /\ messages[p].role = "user" =>
                   (p < Len(messages) => messages[p + 1].role = "assistant")
        /\ Cardinality({ p \in DOMAIN messages : messages[p].role = "assistant" })
               = (IF transcript.pc = "done" /\ transcript.path = "none"
                  THEN transcript.iteration - 1 ELSE transcript.iteration)

\* a user turn whose two responses asked for two tools each: the last call was
\* refused by the detector, and the transcript holds both batches in full
C36_Witness ==
    /\ transcript.kind = "user"
    /\ transcript.pc = "done"
    /\ transcript.path = "safety_block"
    /\ Len(transcript.messages) = 7
    /\ transcript.messages[7] = Message("tool", <<2, 2>>, <<>>)

\* the same in a system turn: every call went to the registry
C36_SystemWitness ==
    /\ transcript.kind = "system"
    /\ transcript.pc = "done"
    /\ transcript.path = "executed"
    /\ Len(transcript.messages) = 7

-----------------------------------------------------------------------------
(* agent/safety.py: one read-only check repeated without end *)

RepeatedReads == { Call("read_file", ReadA), Call("read_file", [path |-> Str(<<"b">>)]) }

\* det_log holds the check made last, and whether an even or an odd number
\* of checks has been made
LastCheck(c, r) ==
    <<[call |-> c, result |-> r.result, write |-> IsWrite(c.name, c.args),
       odd |-> (det_log = <<>> \/ ~det_log[1].odd)]>>

\* the run may start right after a write-classified check
RepeatWrite ==
    /\ det_log = <<>>
    /\ LET r == Check(det, threshold, window_size, WriteCall.name, WriteCall.args)
       IN  /\ det' = r.det
           /\ det_log' = LastCheck(WriteCall, r)
    /\ UNCHANGED <<threshold, window_size>>
    /\ UNCHANGED <<bus_vars, sub_vars, loop_vars, spawn_vars, cache_vars,
                   reg_vars, conc_vars, late_vars>>

\* the first read of the run, and every further one: the same call again
RepeatRead ==
    /\ \E c \in RepeatedReads :
        /\ (det_log # <<>> /\ ~det_log[1].write) => c = det_log[1].call
        /\ LET r == Check(det, threshold, window_size, c.name, c.args)
           IN  /\ det' = r.det
               /\ det_log' = LastCheck(c, r)
    /\ UNCHANGED <<threshold, window_size>>
    /\ UNCHANGED <<bus_vars, sub_vars, loop_vars, spawn_vars, cache_vars,
                   reg_vars, conc_vars, late_vars>>

RepeatNext ==
    \/ RepeatWrite
    \/ RepeatRead

\* the caller goes on repeating the read
FairSpecRepeat ==
    DetAloneInit /\ [][RepeatNext]_vars /\ WF_vars(RepeatRead)

LastRefused == det_log # <<>> /\ det_log[1].result = Refusal

\* C37: for every configuration with 1 <= threshold <= window_size an
\* unbroken run of identical read-only checks is eventually refused, also when
\* it starts right after a write-classified check
C37_RunEventuallyRefused ==
    (1 <= threshold /\ threshold <= window_size) ~> LastRefused

\* what the code guarantees: the run is eventually refused when the window is
\* larger than the threshold
RunRefusedWithLargerWindow ==
    (1 <= threshold /\ threshold < window_size) ~> LastRefused

\* the grace period that does not end: the window is full of the repeated
\* signature after a write, the threshold equals the window size, and the
\* check returned None
GraceNeverEnds ==
    /\ threshold = window_size
    /\ det.just_wrote
    /\ Len(det.history) = window_size
    /\ det_log # <<>> /\ ~det_log[1].write
    /\ det_log[1].result = NoneResult

=============================================================================
